---------------------------- MODULE Spec2Model ----------------------------
(***************************************************************************)
(* A model of the adaptive trading control engine of CASHMONEY:           *)
(*   src/trading.py                 the per-instrument controller, signal  *)
(*                                  fusion and risk adaptation            *)
(*   src/trading_2.py               the variant controller with manual-    *)
(*                                  intervention handling                 *)
(*   src/trading/position_manager.py the PositionManager class             *)
(*   src/ml/predictor.py            the predictor consumed by get_signal   *)
(*                                                                         *)
(* Numbers.  The code computes in binary floating point.  The model keeps  *)
(* every quantity as an integer number of small units and multiplies by a  *)
(* percentage, rounding down:                                              *)
(*   volumes   in 1/1000 of the configured initial volume                  *)
(*   money     in cents (profit -15.80 is -1580)                           *)
(*   ratios    as exact fractions <<numerator, denominator>>               *)
(*   time      in seconds                                                  *)
(***************************************************************************)
EXTENDS Integers, Sequences, FiniteSets, TLC

\* ------------------------------------------------------------------------
\* Configuration (imported from config by the source) and model bounds
\* ------------------------------------------------------------------------

\* config.INITIAL_VOLUME, in model volume units
INITIAL_VOLUME == 1000
\* config.MIN_PROFIT_THRESHOLD, in cents
MIN_PROFIT_THRESHOLD == 200
\* state.trade_direction_memory_size
trade_direction_memory_size == 3

\* config.MIN_WIN_RATE, in percent
MIN_WIN_RATE == 40
\* config.MAX_CONSECUTIVE_LOSSES
MAX_CONSECUTIVE_LOSSES == 3
\* config.POSITION_REVERSAL_THRESHOLD, in cents
POSITION_REVERSAL_THRESHOLD == -2000
\* config.NEUTRAL_CONFIDENCE_THRESHOLD, in percent
NEUTRAL_CONFIDENCE_THRESHOLD == 50
\* config.NEUTRAL_HOLD_DURATION, in seconds
NEUTRAL_HOLD_DURATION == 300
\* TRADING_CONFIG.HIGH_CONFIDENCE_THRESHOLD, in percent: the configuration
\* is not part of the sources, and the values explored are the literal that
\* get_signal uses for high confidence and a stricter one
HighConfidenceThresholds == {60, 70}

\* Python's None where the source holds a datetime or a number
NoTime == -1

\* bounds of the trading loop of src/trading.py
MaxTraderTrades == 2
MaxPositions == 2
MaxTraderNow == 100
PositionProfits == {-2500, -1600, -300, 400}

\* bounds of the trading loop of src/trading_2.py
MaxTrades2 == 2
MaxPositions2 == 1
MaxLosses2 == 4
MaxNow2 == 7300
TimeSteps2 == {7300}
PositionProfits2 == {-3500, 300, 700}

\* config.PROFIT_LOCK_PERCENTAGE, in percent
PROFIT_LOCK_PERCENTAGE == 50

\* bounds of the position manager: prices are in steps of 2.5 pips
MinPrice == 10
MaxPrice == 13
MaxTickets == 2
MaxManagerTrades == 1

\* symbol_info.volume_min, symbol_info.volume_max and
\* symbol_info.volume_step of the venue's symbol, in model volume units
volume_min == 800
volume_max == 1400
volume_step == 100

\* the venue's ask price is Spread above its bid price
Spread == 1

\* position.sl of a position without stop-loss (0.0)
NoSL == 0

\* float("inf")
inf == 1000

\* the profit, in cents, that one price step brings a position of
\* INITIAL_VOLUME, and its profit percentage in 1/100 percent
MoneyPerStep == 1000
PercentPerStep == 40

\* the stop-loss distance, in price steps, of an order that place_order
\* sends (5 * atr)
sl_distance == 5

\* position_manager.py line 169: 5 pips, in price steps
min_stop_distance == 2

\* SpecSignal: the largest number of recorded outcomes, the last instant
\* explored, the steps of the clock and the realized profits
MaxSignalTrades == 3
MaxNow == 400
TimeSteps == {100, 300}
SignalProfits == {-500, 500}

\* the largest number of recorded outcomes explored by SpecRisk
MaxTrades == 11
\* the realized profits, in cents, that SpecRisk feeds to the risk engine
RiskProfits == {-500, 0, 500}

\* ------------------------------------------------------------------------
\* Arithmetic helpers
\* ------------------------------------------------------------------------

\* x * (pct / 100), the model of a float multiplication by a literal factor
Scale(x, pct) == (x * pct) \div 100

Min2(a, b) == IF a <= b THEN a ELSE b
Max2(a, b) == IF a >= b THEN a ELSE b

\* the last n elements of a sequence: Python's s[-n:]
Tail_n(s, n) == IF Len(s) <= n THEN s ELSE SubSeq(s, Len(s) - n + 1, Len(s))

RECURSIVE SumSeq(_)
SumSeq(s) == IF s = <<>> THEN 0 ELSE Head(s) + SumSeq(Tail(s))

\* fractions <<n, d>> with d > 0
FracGT(f, n, d) == f[1] * d > n * f[2]
FracLT(f, n, d) == f[1] * d < n * f[2]

\* ------------------------------------------------------------------------
\* State
\* ------------------------------------------------------------------------

VARIABLES
    state,                \* trading_state.symbol_states[symbol] of src/trading.py
    now,                  \* datetime.now(), in seconds
    is_conservative_mode, \* trading_state.is_conservative_mode
    HIGH_CONFIDENCE_THRESHOLD, \* TRADING_CONFIG.HIGH_CONFIDENCE_THRESHOLD
    sig,                  \* the get_signal call that has just returned, if any
    last_neutral          \* when get_signal last returned the neutral verdict

signalVars ==
    <<now, is_conservative_mode, HIGH_CONFIDENCE_THRESHOLD, sig, last_neutral>>

VARIABLES
    SHUTDOWN_EVENT,       \* config.SHUTDOWN_EVENT.is_set()
    pc,                   \* where symbol_trader of src/trading.py stands
    positions,            \* the venue's open positions of the symbol
    verdict,              \* symbol_trader's signal, atr, potential_profit
    ev                    \* what the last step of symbol_trader did

traderVars == <<SHUTDOWN_EVENT, pc, positions, verdict, ev>>

VARIABLES
    trading_state         \* the intervention fields of models.trading_state

VARIABLES
    tick,                 \* the venue's bid price of the symbol
    trailing_stops        \* PositionManager.trailing_stops

VARIABLES
    lifted                \* should_trade_symbol of src/trading.py has cleared
                          \* is_restricted in the current iteration

pmVars == <<tick, trailing_stops>>

vars == <<state, signalVars, traderVars, trading_state, pmVars, lifted>>

\* ------------------------------------------------------------------------
\* src/trading.py: risk adaptation
\* ------------------------------------------------------------------------

\* line 29: the test of a winning trade
IsWin(profit) == profit > 0

RECURSIVE winning_trades(_)
\* line 29: sum(1 for profit in trades if profit > 0)
winning_trades(trades) ==
    IF trades = <<>> THEN 0
    ELSE (IF IsWin(Head(trades)) THEN 1 ELSE 0) + winning_trades(Tail(trades))

calculate_win_rate(trades) ==
    IF trades = <<>> THEN <<0, 1>>
    ELSE <<winning_trades(trades), Len(trades)>>

\* a volume adjustment that forgets the cap and the floor
AdjustVolume_unclamped(volume, win_rate) ==
    IF FracGT(win_rate, 6, 10) THEN Scale(volume, 120)
    ELSE IF FracLT(win_rate, 4, 10) THEN Scale(volume, 80)
    ELSE volume

\* lines 50-54: the volume adjustment
AdjustVolume(volume, win_rate) ==
    IF FracGT(win_rate, 6, 10)
        THEN Min2(Scale(volume, 120), INITIAL_VOLUME * 2)
    ELSE IF FracLT(win_rate, 4, 10)
        THEN Max2(Scale(volume, 80), Scale(INITIAL_VOLUME, 50))
    ELSE volume

\* lines 56-60: the profit threshold adjustment
AdjustThreshold(profit_threshold, profit) ==
    IF profit > profit_threshold THEN Scale(profit_threshold, 110)
    ELSE IF profit < 0
        THEN Max2(MIN_PROFIT_THRESHOLD, Scale(profit_threshold, 90))
    ELSE profit_threshold

\* lines 36-41: the direction memory
RememberDirection(dirs, profit) ==
    LET d == Append(dirs, IF profit > 0 THEN "buy" ELSE "sell")
    IN  IF Len(d) > trade_direction_memory_size THEN Tail(d) ELSE d

\* a window that takes the whole history
RecentTrades_all(trades_history) == trades_history

\* line 48: state.trades_history[-10:]
RecentTrades(trades_history) == Tail_n(trades_history, 10)

adjust_trading_parameters(s, profit) ==
    LET hist == Append(s.trades_history, profit)
        wr   == calculate_win_rate(RecentTrades(hist))
    IN  [s EXCEPT
            !.recent_trade_directions = RememberDirection(@, profit),
            !.trades_count = @ + 1,
            !.trades_history = hist,
            !.win_rate = wr,
            !.volume = AdjustVolume(@, wr),
            !.profit_threshold = AdjustThreshold(@, profit)]

\* ------------------------------------------------------------------------
\* src/trading.py: eligibility
\* ------------------------------------------------------------------------

RECURSIVE MaxSeq(_)
MaxSeq(s) == IF Len(s) = 1 THEN s[1] ELSE Max2(Head(s), MaxSeq(Tail(s)))

RECURSIVE MinSeq(_)
MinSeq(s) == IF Len(s) = 1 THEN s[1] ELSE Min2(Head(s), MinSeq(Tail(s)))

\* a cooling period of one minute after recent losses
RecentLossCooldown_short(s, t) ==
    LET recent_trades == Tail_n(s.trades_history, 3)
    IN  /\ recent_trades # <<>>
        /\ SumSeq(recent_trades) < 0
        /\ s.last_trade_time # NoTime
        /\ t - s.last_trade_time < 60

\* lines 66-75: the last three trades lost money and the last fill is
\* less than 120 seconds old
RecentLossCooldown(s, t) ==
    LET recent_trades == Tail_n(s.trades_history, 3)
    IN  /\ recent_trades # <<>>
        /\ SumSeq(recent_trades) < 0
        /\ s.last_trade_time # NoTime
        /\ t - s.last_trade_time < 120

\* lines 77-81: the spread of the last three outcomes exceeds twice the
\* profit threshold
OutcomeSpreadGuard(s) ==
    LET recent_trades == Tail_n(s.trades_history, 3)
    IN  /\ recent_trades # <<>>
        /\ MaxSeq(recent_trades) - MinSeq(recent_trades)
              > s.profit_threshold * 2

\* line 85: the restriction cooldown of one hour has not elapsed
RestrictionCooldown(s, t) ==
    /\ s.last_trade_time # NoTime
    /\ t - s.last_trade_time < 3600

\* an eligibility check that lifts the restriction by the cooldown alone
should_trade_symbol_cooldown_only(s, t) ==
    IF RecentLossCooldown(s, t) THEN [ok |-> FALSE, state |-> s]
    ELSE IF OutcomeSpreadGuard(s) THEN [ok |-> FALSE, state |-> s]
    ELSE IF s.is_restricted THEN
        IF RestrictionCooldown(s, t) THEN [ok |-> FALSE, state |-> s]
        ELSE [ok |-> TRUE, state |-> [s EXCEPT !.is_restricted = FALSE]]
    ELSE [ok |-> TRUE, state |-> s]

\* an eligibility check that does not look at the restriction
should_trade_symbol_unrestricted(s, t) ==
    IF RecentLossCooldown(s, t) THEN [ok |-> FALSE, state |-> s]
    ELSE IF OutcomeSpreadGuard(s) THEN [ok |-> FALSE, state |-> s]
    ELSE [ok |-> TRUE, state |-> s]

\* should_trade_symbol returns a boolean and may clear is_restricted:
\* [ok |-> the value returned, state |-> the state it leaves]
should_trade_symbol(s, t) ==
    IF RecentLossCooldown(s, t) THEN [ok |-> FALSE, state |-> s]
    ELSE IF OutcomeSpreadGuard(s) THEN [ok |-> FALSE, state |-> s]
    ELSE IF s.is_restricted THEN
        IF RestrictionCooldown(s, t) THEN [ok |-> FALSE, state |-> s]
        ELSE IF FracGT(s.win_rate, MIN_WIN_RATE, 100)
            THEN [ok |-> TRUE, state |-> [s EXCEPT !.is_restricted = FALSE]]
        ELSE [ok |-> FALSE, state |-> s]
    ELSE [ok |-> TRUE, state |-> s]

\* ------------------------------------------------------------------------
\* src/ml/predictor.py: MLPredictor
\* ------------------------------------------------------------------------

\* what the model artifacts and the market data allow:
\*   "raise"  load_models raises in the constructor (lines 96-105)
\*   "nodata" predict returns None, 0, 0 (lines 137-161, 185-187)
\*   "ok"     the models answer with a direction probability in percent
\*            and a predicted return in 1/100000
PredictorCases == {"raise", "nodata", "ok"}
DirectionProbs == {30, 50, 65, 80}
PredictedReturns == {-20, 5, 20}

PredictorInputs ==
    { [kind |-> "raise", direction_prob |-> 0, predicted_return |-> 0],
      [kind |-> "nodata", direction_prob |-> 0, predicted_return |-> 0] }
    \cup [kind : {"ok"}, direction_prob : DirectionProbs,
          predicted_return : PredictedReturns]

\* lines 175-183: the interpretation of the direction probability
InterpretDirection(direction_prob, threshold) ==
    IF direction_prob > threshold THEN "buy"
    ELSE IF direction_prob < 100 - threshold THEN "sell"
    ELSE "hold"

\* a predictor that answers with a confident buy when it has no data
predict_default_buy(m, threshold) ==
    IF m.kind = "ok"
        THEN [signal |-> InterpretDirection(m.direction_prob, threshold),
              confidence |-> m.direction_prob,
              predicted_return |-> m.predicted_return]
    ELSE [signal |-> "buy", confidence |-> 80, predicted_return |-> 20]

\* MLPredictor.predict: (signal, confidence, predicted return)
predict(m, threshold) ==
    IF m.kind = "ok"
        THEN [signal |-> InterpretDirection(m.direction_prob, threshold),
              confidence |-> m.direction_prob,
              predicted_return |-> m.predicted_return]
    ELSE [signal |-> "None", confidence |-> 0, predicted_return |-> 0]

\* ------------------------------------------------------------------------
\* src/trading.py: signal fusion
\* ------------------------------------------------------------------------

\* the last row of the indicator frame, as calculate_trend_score reads it:
\*   ADX_strong  current.ADX > 25
\*   ma          "up": close > SMA_short > SMA_long, "down": the reverse
\*   rsi         "oversold": RSI < rsi_oversold, "overbought": RSI >
\*               rsi_overbought
\*   ATR         current.ATR
IndicatorRows ==
    [ADX_strong : BOOLEAN, ma : {"up", "down", "flat"},
     rsi : {"oversold", "overbought", "mid"}, ATR : {0, 3}]

calculate_trend_score(current) ==
    LET adx == IF current.ADX_strong THEN 2 ELSE 0
        ma  == IF current.ma = "up" THEN adx + 1
               ELSE IF current.ma = "down" THEN adx - 1
               ELSE adx
    IN  IF current.rsi = "oversold" /\ ma > 0 THEN ma + 2
        ELSE IF current.rsi = "overbought" /\ ma < 0 THEN ma - 2
        ELSE ma

Abs(x) == IF x < 0 THEN -x ELSE x

\* the value returned where the source returns None for the ATR
NoATR == NoTime

\* return None, None, 0
NoSignal == [signal |-> "None", atr |-> NoATR, potential_profit |-> 0]

\* a neutral state detection that looks at the confidence alone
IsNeutral_confidence_only(ml) ==
    ml.confidence <= NEUTRAL_CONFIDENCE_THRESHOLD

\* lines 197-201: the neutral state detection
IsNeutral(ml) ==
    \/ ml.confidence <= NEUTRAL_CONFIDENCE_THRESHOLD
    \/ Abs(ml.predicted_return) < 10

\* a hold check with the comparison turned around
InNeutralHold_inverted(s, t) ==
    /\ s.neutral_start_time # NoTime
    /\ t - s.neutral_start_time > NEUTRAL_HOLD_DURATION

\* lines 207-211: the instrument is inside an active neutral hold
InNeutralHold(s, t) ==
    /\ s.neutral_start_time # NoTime
    /\ t - s.neutral_start_time < NEUTRAL_HOLD_DURATION

\* a repetition check that tolerates two earlier trades
RepeatsDirection_three(s, ml_signal) ==
    /\ s.recent_trade_directions # <<>>
    /\ Cardinality({ i \in 1..Len(s.recent_trade_directions) :
                       s.recent_trade_directions[i] = ml_signal }) >= 3

\* lines 217-220: the predicted direction was traded twice recently
RepeatsDirection(s, ml_signal) ==
    /\ s.recent_trade_directions # <<>>
    /\ Cardinality({ i \in 1..Len(s.recent_trade_directions) :
                       s.recent_trade_directions[i] = ml_signal }) >= 2

\* a quality check that looks at the confidence alone
LowQuality_confidence_only(ml) ==
    ~(ml.signal # "None" /\ ml.confidence >= 60)

\* lines 226-234: the confidence and predicted return quality checks fail
LowQuality(ml) ==
    \/ ~(ml.signal # "None" /\ ml.confidence >= 60)
    \/ Abs(ml.predicted_return) < 10
    \/ ml.predicted_return < 0

\* lines 236-240: the trend score after the ML signal's impact
FusedScore(trend_score, ml) ==
    IF ml.signal = "buy" /\ ml.confidence > 60 THEN trend_score + 2
    ELSE IF ml.signal = "sell" /\ ml.confidence > 60 THEN trend_score - 2
    ELSE trend_score

\* a signal determination without the discount of conservative mode
Decide_no_discount(current, trend_score, ml, conservative) ==
    LET potential_profit == current.ATR * Abs(trend_score) * 10
        required_score   == IF conservative THEN 3 ELSE 2
    IN  IF trend_score >= required_score
            THEN [signal |-> "buy", atr |-> current.ATR,
                  potential_profit |-> potential_profit]
        ELSE IF trend_score <= -required_score
            THEN [signal |-> "sell", atr |-> current.ATR,
                  potential_profit |-> potential_profit]
        ELSE [signal |-> ml.signal, atr |-> current.ATR,
              potential_profit |-> ml.predicted_return]

\* lines 242-267: the final signal determination
Decide(current, trend_score, ml, conservative) ==
    LET potential_profit == current.ATR * Abs(trend_score) * 10
        required_score   == IF conservative THEN 3 ELSE 2
        profit           == IF conservative THEN Scale(potential_profit, 80)
                            ELSE potential_profit
    IN  IF trend_score >= required_score
            THEN [signal |-> "buy", atr |-> current.ATR,
                  potential_profit |-> profit]
        ELSE IF trend_score <= -required_score
            THEN [signal |-> "sell", atr |-> current.ATR,
                  potential_profit |-> profit]
        ELSE [signal |-> ml.signal, atr |-> current.ATR,
              potential_profit |-> ml.predicted_return]

\* lines 192-271: get_signal from the ML prediction on, for an eligible
\* instrument with rates: [verdict |-> the triple returned, state |-> the
\* state it leaves]
FuseSignal(s, t, conservative, current, m, threshold) ==
    LET ml == predict(m, threshold)
    IN  IF m.kind = "raise" THEN [verdict |-> NoSignal, state |-> s]
        ELSE IF IsNeutral(ml)
            THEN [verdict |-> [signal |-> "neutral", atr |-> current.ATR,
                               potential_profit |-> 0],
                  state |-> [s EXCEPT !.neutral_start_time = t]]
        ELSE IF InNeutralHold(s, t) THEN [verdict |-> NoSignal, state |-> s]
        ELSE LET s2 == [s EXCEPT !.neutral_start_time = NoTime]
             IN  IF RepeatsDirection(s2, ml.signal)
                     THEN [verdict |-> NoSignal, state |-> s2]
                 ELSE IF LowQuality(ml)
                     THEN [verdict |-> NoSignal, state |-> s2]
                 ELSE [verdict |-> Decide(current,
                                          FusedScore(
                                            calculate_trend_score(current),
                                            ml),
                                          ml, conservative),
                       state |-> s2]

\* get_signal(symbol); rates is whether copy_rates_from_pos returned bars
get_signal(s, t, conservative, rates, current, m, threshold) ==
    LET e == should_trade_symbol(s, t)
    IN  IF ~e.ok THEN [verdict |-> NoSignal, state |-> e.state]
        ELSE IF ~rates THEN [verdict |-> NoSignal, state |-> e.state]
        ELSE FuseSignal(e.state, t, conservative, current, m, threshold)

\* ------------------------------------------------------------------------
\* src/trading.py: orders
\* ------------------------------------------------------------------------

\* what the venue answers to close_position (lines 494-552):
\*   "unavailable"  mt5.initialize() fails or there is no tick: no request
\*   "rejected"     order_send returns None or a retcode other than DONE
\*   "done"         the venue closes the position
CloseAnswers == {"unavailable", "rejected", "done"}

close_position(answer) == answer = "done"

\* what the venue answers along place_order (lines 341-437):
\*   "no_symbol_info"   symbol_info is None
\*   "no_tick"          symbol_info_tick is None
\*   "no_rates"         copy_rates_from_pos is None
\*   "first_none"       the first order_send returns None
\*   "first_done"       the first order_send is accepted
\*   "second_none"      the first is rejected, the retry returns None
\*   "second_rejected"  the first and the retry are rejected
\*   "second_done"      the first is rejected, the retry is accepted
PlaceOrderAnswers ==
    {"no_symbol_info", "no_tick", "no_rates", "first_none", "first_done",
     "second_none", "second_rejected", "second_done"}

\* line 355: the volume adjusted to the symbol's range
ClampVolume(volume) == Max2(volume_min, Min2(volume, volume_max))

\* lines 361-370: any direction other than "buy" is sent as a sell
OrderSide(direction) == IF direction = "buy" THEN "buy" ELSE "sell"

\* an order request as the venue receives it
OrderRequest(direction, volume, filling, accepted) ==
    [side |-> OrderSide(direction), volume |-> ClampVolume(volume),
     filling |-> filling, accepted |-> accepted]

\* place_order: [result |-> what it returns, orders |-> the order requests
\* it sent].  The result is "False", "True", "tuple" for the return of
\* (None, None, 0) at line 396, or "raise" for the TypeError of atr * 5 at
\* line 358 when atr is None.
place_order(direction, atr, volume, answer) ==
    IF answer = "no_symbol_info" THEN [result |-> "False", orders |-> <<>>]
    ELSE IF answer = "no_tick" THEN [result |-> "False", orders |-> <<>>]
    ELSE IF atr = NoATR THEN [result |-> "raise", orders |-> <<>>]
    ELSE IF answer = "no_rates" THEN [result |-> "tuple", orders |-> <<>>]
    ELSE IF answer = "first_none"
        THEN [result |-> "False",
              orders |-> <<OrderRequest(direction, volume, "FOK", FALSE)>>]
    ELSE IF answer = "first_done"
        THEN [result |-> "True",
              orders |-> <<OrderRequest(direction, volume, "FOK", TRUE)>>]
    ELSE IF answer = "second_done"
        THEN [result |-> "True",
              orders |-> <<OrderRequest(direction, volume, "FOK", FALSE),
                           OrderRequest(direction, volume, "IOC", TRUE)>>]
    ELSE [result |-> "False",
          orders |-> <<OrderRequest(direction, volume, "FOK", FALSE),
                       OrderRequest(direction, volume, "IOC", FALSE)>>]

\* an if statement that takes every result for a success
Truthy_always(result) == TRUE

\* the result of place_order as the condition of an if statement
Truthy(result) == result \in {"True", "tuple"}

\* the ticket the venue gives to a new position
FreshTicket(used) == CHOOSE k \in 1..(Cardinality(used) + 1) : k \notin used

\* the positions the accepted orders of a call open at the venue
OpenedBy(orders, ticket, t) ==
    IF orders # <<>> /\ orders[Len(orders)].accepted
        THEN << [ticket |-> ticket,
                 type |-> orders[Len(orders)].side,
                 volume |-> orders[Len(orders)].volume,
                 time |-> t, profit |-> 0] >>
    ELSE <<>>

\* ------------------------------------------------------------------------
\* src/trading.py: position management
\* ------------------------------------------------------------------------

\* the venue's answers while one position is managed: to the close of the
\* reversal, to get_market_volatility, to place_order and to the close of
\* the other close conditions
ManageAnswers ==
    [reversal_close : CloseAnswers, atr : {NoATR, 3},
     place : PlaceOrderAnswers, other_close : CloseAnswers]

\* the reversal volume: state.volume * 1.5
ReversalVolume(volume) == Scale(volume, 150)

\* lines 322-338: the other close conditions ask for a close
OtherCloseCondition(position, t) ==
    IF t - position.time >= 30 THEN position.profit < 0
    ELSE position.profit <= -1580

\* lines 283-338, the body of the loop for one position:
\*   state     the instrument state it leaves
\*   raised    an exception left manage_open_positions
\*   closed    the venue closed the position
\*   orders    the order requests sent for the reversal
\*   log       what was done, for the properties
ManagePosition(s, position, t, a) ==
    LET reversal == position.profit <= POSITION_REVERSAL_THRESHOLD
        rev_closed == reversal /\ close_position(a.reversal_close)
        reversal_direction == IF position.type = "buy" THEN "sell" ELSE "buy"
        placed == place_order(reversal_direction, a.atr,
                              ReversalVolume(s.volume), a.place)
        other == ~rev_closed /\ OtherCloseCondition(position, t)
        other_closed == other /\ close_position(a.other_close)
        log == [ticket |-> position.ticket, type |-> position.type,
                profit |-> position.profit, volume_before |-> s.volume,
                reversal |-> reversal,
                close_calls |-> (IF reversal THEN 1 ELSE 0)
                                + (IF other THEN 1 ELSE 0),
                closes_done |-> (IF rev_closed THEN 1 ELSE 0)
                                + (IF other_closed THEN 1 ELSE 0),
                reversal_closed |-> rev_closed,
                place_calls |-> IF rev_closed THEN 1 ELSE 0,
                orders |-> IF rev_closed THEN placed.orders ELSE <<>>,
                adjusts |-> 0, raised |-> FALSE]
    IN  IF rev_closed THEN
            IF placed.result = "raise"
                THEN [state |-> s, raised |-> TRUE, closed |-> TRUE,
                      orders |-> placed.orders,
                      log |-> [log EXCEPT !.raised = TRUE]]
            ELSE [state |-> adjust_trading_parameters(s, position.profit),
                  raised |-> FALSE, closed |-> TRUE,
                  orders |-> placed.orders,
                  log |-> [log EXCEPT !.adjusts = 1]]
        ELSE IF other_closed
            THEN [state |-> adjust_trading_parameters(s, position.profit),
                  raised |-> FALSE, closed |-> TRUE, orders |-> <<>>,
                  log |-> [log EXCEPT !.adjusts = 1]]
        ELSE [state |-> s, raised |-> FALSE, closed |-> FALSE,
              orders |-> <<>>, log |-> log]

RECURSIVE ManageLoop(_, _, _, _, _)
\* lines 282-338: for position in positions, over the positions ps that
\* positions_get returned; venue is the venue's open positions, answers
\* the venue's answers by ticket
ManageLoop(s, ps, venue, t, answers) ==
    IF ps = <<>>
        THEN [state |-> s, venue |-> venue, raised |-> FALSE, log |-> <<>>]
    ELSE
        LET position == Head(ps)
            m == ManagePosition(s, position, t, answers[position.ticket])
            kept == SelectSeq(venue,
                              LAMBDA q : ~(m.closed
                                           /\ q.ticket = position.ticket))
            used == { kept[i].ticket : i \in 1..Len(kept) }
            after == kept \o OpenedBy(m.orders, FreshTicket(used), t)
        IN  IF m.raised
                THEN [state |-> m.state, venue |-> after, raised |-> TRUE,
                      log |-> <<m.log>>]
            ELSE LET rest == ManageLoop(m.state, Tail(ps), after, t, answers)
                 IN  [rest EXCEPT !.log = <<m.log>> \o @]

\* manage_open_positions(symbol); visible is whether positions_get
\* answered with the open positions
manage_open_positions(s, venue, t, visible, answers) ==
    IF ~visible \/ venue = <<>>
        THEN [state |-> s, venue |-> venue, raised |-> FALSE, log |-> <<>>]
    ELSE ManageLoop(s, venue, venue, t, answers)

InitState ==
    [ volume                  |-> INITIAL_VOLUME,
      profit_threshold        |-> MIN_PROFIT_THRESHOLD,
      trades_history          |-> <<>>,
      trades_count            |-> 0,
      win_rate                |-> <<0, 1>>,
      recent_trade_directions |-> <<>>,
      consecutive_losses      |-> 0,
      is_restricted           |-> FALSE,
      last_trade_time         |-> NoTime,
      neutral_start_time      |-> NoTime ]

\* no get_signal call has been observed
NoCall == [called |-> FALSE]

SignalIdle ==
    /\ now = 0
    /\ is_conservative_mode = FALSE
    /\ HIGH_CONFIDENCE_THRESHOLD = 60
    /\ sig = NoCall
    /\ last_neutral = NoTime

\* symbol_trader has reported no step
NoEvent ==
    [step |-> "none", shutdown |-> FALSE, entry |-> <<>>, log |-> <<>>,
     result |-> "none", slept |-> "none", call |-> NoCall]

\* no manual intervention has been detected
NoIntervention ==
    [manual_intervention_detected |-> FALSE,
     last_manual_intervention_time |-> NoTime,
     manual_intervention_cooldown |-> 0]

\* no PositionManager runs
ManagerIdle ==
    /\ tick = MinPrice
    /\ trailing_stops = <<>>

\* no symbol_trader thread of src/trading.py runs
TraderIdle ==
    /\ ManagerIdle
    /\ lifted = FALSE
    /\ trading_state = NoIntervention
    /\ SHUTDOWN_EVENT = FALSE
    /\ pc = "idle"
    /\ positions = <<>>
    /\ verdict = NoSignal
    /\ ev = NoEvent

\* ------------------------------------------------------------------------
\* SpecRisk: any sequence of adjust_trading_parameters calls
\* ------------------------------------------------------------------------

InitRisk == state = InitState /\ SignalIdle /\ TraderIdle

RecordOutcome(profit) ==
    /\ Len(state.trades_history) < MaxTrades
    /\ state' = adjust_trading_parameters(state, profit)
    /\ UNCHANGED <<lifted, pmVars, trading_state, signalVars, traderVars>>

NextRisk == \E profit \in RiskProfits : RecordOutcome(profit)

SpecRisk == InitRisk /\ [][NextRisk]_vars

\* C1: after any sequence of adjust_trading_parameters calls that starts
\* from volume = INITIAL_VOLUME, the volume lies between half and twice
\* INITIAL_VOLUME.
C1_VolumeWithinBounds ==
    /\ 2 * state.volume >= INITIAL_VOLUME
    /\ state.volume <= 2 * INITIAL_VOLUME

\* the cap was applied: a further winning trade left the volume at twice
\* the initial volume
C1_Witness ==
    /\ state.volume = 2 * INITIAL_VOLUME
    /\ state.trades_count >= 5
    /\ FracGT(state.win_rate, 6, 10)

\* the positions of the history that the win rate is computed from
WindowIndices(hist) ==
    { i \in 1..Len(hist) : i > Len(hist) - 10 }

\* C3: after every adjust_trading_parameters call the win rate is the
\* number of strictly positive profits among the last min(10, n) entries
\* of the history of length n, divided by min(10, n).
C3_WinRateFromLastTen ==
    LET hist == state.trades_history
        n    == Len(hist)
    IN  n > 0 =>
          /\ state.win_rate[2] = Min2(10, n)
          /\ state.win_rate[1] =
                Cardinality({ i \in WindowIndices(hist) : hist[i] > 0 })

\* an eleventh entry pushed a winning trade out of the window: the
\* denominator stayed 10 and the win is no longer counted
C3_Witness ==
    LET hist == state.trades_history
    IN  /\ Len(hist) = 11
        /\ hist[1] > 0
        /\ \A i \in 2..11 : hist[i] <= 0
        /\ state.win_rate = <<0, 10>>

\* ------------------------------------------------------------------------
\* SpecSignal: get_signal called at any time, in any state that recorded
\* outcomes, failed orders and fills can leave
\* ------------------------------------------------------------------------

\* the instrument states get_signal can meet: restricted after
\* MAX_CONSECUTIVE_LOSSES failed orders or not, with or without a fill
InitSignalStates ==
    { [InitState EXCEPT !.is_restricted = r,
                        !.consecutive_losses =
                            IF r THEN MAX_CONSECUTIVE_LOSSES ELSE 0,
                        !.last_trade_time = l] :
        r \in BOOLEAN, l \in {NoTime, 0} }

InitSignal ==
    /\ TraderIdle
    /\ state \in InitSignalStates
    /\ now = 0
    /\ is_conservative_mode \in BOOLEAN
    /\ HIGH_CONFIDENCE_THRESHOLD \in HighConfidenceThresholds
    /\ sig = NoCall
    /\ last_neutral = NoTime

\* the inputs a call does not read are fixed: no rates are fetched for an
\* instrument that is not eligible, and no indicator row or prediction is
\* computed without rates
NoRow == [ADX_strong |-> FALSE, ma |-> "flat", rsi |-> "mid", ATR |-> 0]

\* a call of get_signal(symbol) and what it returned
GetSignal(rates, current, m) ==
    LET e == should_trade_symbol(state, now)
        r == get_signal(state, now, is_conservative_mode, rates, current, m,
                        HIGH_CONFIDENCE_THRESHOLD)
        reached == e.ok /\ rates
    IN  /\ ~sig.called
        /\ (~reached) => current = NoRow /\ m.kind = "nodata"
        /\ (~e.ok) => ~rates
        /\ state' = r.state
        /\ sig' = [called |-> TRUE, t |-> now, eligible |-> e.ok,
                   rates |-> rates, kind |-> m.kind,
                   ml |-> predict(m, HIGH_CONFIDENCE_THRESHOLD),
                   atr |-> current.ATR,
                   score |-> calculate_trend_score(current),
                   dirs |-> state.recent_trade_directions,
                   held_since |-> last_neutral,
                   verdict |-> r.verdict]
        /\ last_neutral' = IF r.verdict.signal = "neutral" THEN now
                           ELSE last_neutral
        /\ UNCHANGED <<lifted, pmVars, trading_state,
                       now, is_conservative_mode, HIGH_CONFIDENCE_THRESHOLD,
                       traderVars>>

\* the caller has taken the verdict
ConsumeVerdict ==
    /\ sig.called
    /\ sig' = NoCall
    /\ UNCHANGED <<lifted, pmVars, trading_state, state, now, is_conservative_mode,
                   HIGH_CONFIDENCE_THRESHOLD, last_neutral, traderVars>>

\* a closed trade is fed to the risk engine
SignalRecordOutcome(profit) ==
    /\ Len(state.trades_history) < MaxSignalTrades
    /\ state' = adjust_trading_parameters(state, profit)
    /\ sig' = NoCall
    /\ UNCHANGED <<lifted, pmVars, trading_state,
                   now, is_conservative_mode, HIGH_CONFIDENCE_THRESHOLD,
                   last_neutral, traderVars>>

\* time passes
Tick(dt) ==
    /\ now + dt <= MaxNow
    /\ now' = now + dt
    /\ sig' = NoCall
    /\ UNCHANGED <<lifted, pmVars, trading_state,
                   state, is_conservative_mode, HIGH_CONFIDENCE_THRESHOLD,
                   last_neutral, traderVars>>

NextSignal ==
    \/ \E rates \in BOOLEAN, current \in IndicatorRows,
          m \in PredictorInputs : GetSignal(rates, current, m)
    \/ ConsumeVerdict
    \/ \E profit \in SignalProfits : SignalRecordOutcome(profit)
    \/ \E dt \in TimeSteps : Tick(dt)

SpecSignal == InitSignal /\ [][NextSignal]_vars

\* the observed call was made less than NEUTRAL_HOLD_DURATION after a
\* neutral verdict
CalledInsideHold ==
    /\ sig.called
    /\ sig.held_since # NoTime
    /\ sig.t - sig.held_since < NEUTRAL_HOLD_DURATION

\* C8 as stated: a neutral verdict sets neutral_start_time, and every call
\* made less than NEUTRAL_HOLD_DURATION after it returns hold (None, None, 0).
C8_AlwaysHoldInsideWindow ==
    /\ (sig.called /\ sig.verdict.signal = "neutral")
          => state.neutral_start_time = sig.t
    /\ CalledInsideHold => sig.verdict = NoSignal

\* C8 as amended: a neutral verdict sets neutral_start_time, and every call
\* made less than NEUTRAL_HOLD_DURATION after it returns no action: hold
\* (None, None, 0), or neutral again when the prediction is still of low
\* quality; it returns hold whenever the prediction is not of low quality,
\* and never a direction.
C8_NeutralHold ==
    /\ (sig.called /\ sig.verdict.signal = "neutral")
          => state.neutral_start_time = sig.t
    /\ CalledInsideHold =>
          /\ sig.verdict.signal \in {"None", "neutral"}
          /\ sig.verdict.potential_profit = 0
          /\ sig.verdict.signal = "neutral" =>
                (sig.eligible /\ sig.rates /\ IsNeutral(sig.ml))
          /\ ~IsNeutral(sig.ml) => sig.verdict = NoSignal

\* inside the hold window the predictor has become confident of a buy, the
\* trend agrees and nothing else suppresses the trade: get_signal holds
C8_Witness ==
    /\ CalledInsideHold
    /\ sig.t > sig.held_since
    /\ sig.eligible /\ sig.rates
    /\ sig.ml.signal = "buy" /\ sig.ml.confidence >= 60
    /\ sig.ml.predicted_return >= 10
    /\ sig.score >= 3 /\ sig.atr > 0
    /\ ~RepeatsDirection([recent_trade_directions |-> sig.dirs], "buy")
    /\ sig.verdict = NoSignal

\* how often a direction occurs in the direction memory
Occurrences(dirs, d) == Cardinality({ i \in 1..Len(dirs) : dirs[i] = d })

\* C9 as stated: if the direction memory holds the predicted direction at
\* least twice get_signal returns no direction, and get_signal never
\* returns a buy or sell verdict whose direction is held at least twice.
C9_NeverRepeatsVerdict ==
    sig.called =>
      /\ Occurrences(sig.dirs, sig.ml.signal) >= 2
            => sig.verdict.signal \notin {"buy", "sell"}
      /\ sig.verdict.signal \in {"buy", "sell"}
            => Occurrences(sig.dirs, sig.verdict.signal) < 2

\* C9 as amended: if the direction memory holds the predictor's direction
\* at least twice, get_signal returns no actionable verdict (None, or
\* neutral with profit 0) whatever the trend score.
C9_PredictedDirectionSuppressed ==
    (sig.called /\ Occurrences(sig.dirs, sig.ml.signal) >= 2) =>
      /\ sig.verdict.signal \in {"None", "neutral"}
      /\ sig.verdict.potential_profit = 0

\* two winning trades are remembered, the predictor is confident of a buy
\* with a good return, the trend agrees, no hold is active: suppressed
C9_Witness ==
    /\ sig.called /\ sig.eligible /\ sig.rates
    /\ Occurrences(sig.dirs, "buy") >= 2
    /\ sig.ml.signal = "buy" /\ sig.ml.confidence >= 60
    /\ sig.ml.predicted_return >= 10
    /\ sig.score >= 3 /\ sig.atr > 0
    /\ sig.held_since = NoTime
    /\ sig.verdict = NoSignal

\* ------------------------------------------------------------------------
\* SpecTrader: the symbol_trader thread of src/trading.py for one symbol,
\* the venue and the shutdown signal
\* ------------------------------------------------------------------------

InitTrader ==
    /\ lifted = FALSE
    /\ ManagerIdle
    /\ trading_state = NoIntervention
    /\ state = InitState
    /\ now = 0
    /\ is_conservative_mode = FALSE
    /\ HIGH_CONFIDENCE_THRESHOLD = 60
    /\ sig = NoCall
    /\ last_neutral = NoTime
    /\ SHUTDOWN_EVENT = FALSE
    /\ pc = "loop"
    /\ positions = <<>>
    /\ verdict = NoSignal
    /\ ev = NoEvent

\* what the last step of symbol_trader did, while nothing else has
\* happened since
Event(step, entry, log) ==
    [step |-> step, shutdown |-> SHUTDOWN_EVENT, entry |-> entry,
     log |-> log, result |-> "none", slept |-> "none", call |-> NoCall]

\* lines 89-90: the call has cleared is_restricted
Lifts(before, after) == before.is_restricted /\ ~after.is_restricted

\* line 445: while not SHUTDOWN_EVENT.is_set()
LoopTest ==
    /\ pc = "loop"
    /\ pc' = IF SHUTDOWN_EVENT THEN "stopped" ELSE "manage"
    /\ ev' = Event("loop", <<>>, <<>>)
    /\ lifted' = FALSE
    /\ UNCHANGED <<pmVars, trading_state,
                   state, signalVars, SHUTDOWN_EVENT, positions, verdict>>

\* the answers that are not read are fixed
AnswersRead(position, a) ==
    LET reversal == position.profit <= POSITION_REVERSAL_THRESHOLD
        placed == reversal /\ a.reversal_close = "done"
    IN  /\ ~reversal => a.reversal_close = "done"
        /\ ~placed => a.atr = 3 /\ a.place = "first_done"
        /\ placed => a.other_close = "done"

TicketsOf(ps) == { ps[i].ticket : i \in 1..Len(ps) }

\* the venue's answers for the position with ticket k, if there is one
AnswersFor(ps, k) ==
    IF k \in TicketsOf(ps)
        THEN LET position == ps[CHOOSE i \in 1..Len(ps) : ps[i].ticket = k]
             IN  { a \in ManageAnswers : AnswersRead(position, a) }
    ELSE { [reversal_close |-> "done", atr |-> 3, place |-> "first_done",
            other_close |-> "done"] }

\* line 448: manage_open_positions(symbol)
Manage ==
    /\ pc = "manage"
    /\ Len(state.trades_history) + Len(positions) <= MaxTraderTrades
    /\ \E visible \in (IF positions = <<>> THEN {TRUE} ELSE BOOLEAN),
          a1 \in AnswersFor(positions, 1), a2 \in AnswersFor(positions, 2) :
          LET answers == <<a1, a2>>
              r == manage_open_positions(state, positions, now, visible,
                                         answers)
          IN  /\ state' = r.state
              /\ positions' = r.venue
              /\ pc' = IF r.raised THEN "except" ELSE "gate"
              /\ ev' = Event("manage", <<>>, r.log)
    /\ UNCHANGED <<lifted, pmVars, trading_state, signalVars, SHUTDOWN_EVENT, verdict>>

\* lines 451-454: the shutdown test, should_trade_symbol and the test for
\* open positions
Gate ==
    /\ pc = "gate"
    /\ \E visible \in BOOLEAN :
       LET e == should_trade_symbol(state, now)
       IN  IF SHUTDOWN_EVENT
               THEN /\ visible
                    /\ pc' = "sleep"
                    /\ state' = state
                    /\ lifted' = lifted
           ELSE /\ state' = e.state
                /\ lifted' = (lifted \/ Lifts(state, e.state))
                /\ e.ok \/ visible
                /\ pc' = IF e.ok /\ (~visible \/ positions = <<>>)
                             THEN "signal" ELSE "sleep"
    /\ ev' = Event("gate", <<>>, <<>>)
    /\ UNCHANGED <<pmVars, trading_state,
                   signalVars, SHUTDOWN_EVENT, positions, verdict>>

\* the call of get_signal that the Signal step made: whether
\* should_trade_symbol allowed it, whether rates were returned and what
\* the predictor answered
SignalCall(s, t, rates, m) ==
    [called |-> TRUE, eligible |-> should_trade_symbol(s, t).ok,
     rates |-> rates, kind |-> m.kind,
     ml |-> predict(m, HIGH_CONFIDENCE_THRESHOLD)]

\* line 455: signal, atr, potential_profit = get_signal(symbol)
Signal ==
    /\ pc = "signal"
    /\ \E rates \in BOOLEAN :
       \E current \in (IF should_trade_symbol(state, now).ok /\ rates
                           THEN IndicatorRows ELSE {NoRow}),
          m \in (IF should_trade_symbol(state, now).ok /\ rates
                     THEN PredictorInputs
                     ELSE {[kind |-> "nodata", direction_prob |-> 0,
                            predicted_return |-> 0]}) :
          LET r == get_signal(state, now, is_conservative_mode, rates,
                              current, m, HIGH_CONFIDENCE_THRESHOLD)
          IN  /\ state' = r.state
              /\ verdict' = r.verdict
              /\ lifted' = (lifted \/ Lifts(state, r.state))
              /\ ev' = [Event("signal", <<>>, <<>>) EXCEPT
                          !.call = SignalCall(state, now, rates, m)]
    /\ pc' = "check"
    /\ UNCHANGED <<pmVars, trading_state,
                   signalVars, SHUTDOWN_EVENT, positions>>

\* line 462: if signal and atr and potential_profit > 0
Actionable(v) ==
    /\ v.signal # "None"
    /\ v.atr # NoATR /\ v.atr # 0
    /\ v.potential_profit > 0

\* lines 458-462: neutral or shutdown skips the rest of the iteration,
\* the sleep included; a verdict that is not acted on is not read again
Check ==
    /\ pc = "check"
    /\ pc' = IF verdict.signal = "neutral" \/ SHUTDOWN_EVENT THEN "loop"
             ELSE IF Actionable(verdict) THEN "place"
             ELSE "sleep"
    /\ verdict' = IF pc' = "place" THEN verdict ELSE NoSignal
    /\ ev' = Event("check", <<>>, <<>>)
    /\ UNCHANGED <<lifted, pmVars, trading_state,
                   state, signalVars, SHUTDOWN_EVENT, positions>>

\* lines 464-479: the entry order and its bookkeeping
Place ==
    /\ pc = "place"
    /\ \E answer \in PlaceOrderAnswers :
       LET placed == place_order(verdict.signal, verdict.atr, state.volume,
                                 answer)
           losses == state.consecutive_losses + 1
       IN  /\ Len(OpenedBy(placed.orders, 1, now)) + Len(positions)
                 <= MaxPositions
           /\ positions' = positions \o
                 OpenedBy(placed.orders, FreshTicket(TicketsOf(positions)),
                          now)
           /\ state' =
                 IF Truthy(placed.result)
                     THEN [state EXCEPT !.last_trade_time = now]
                 ELSE [state EXCEPT
                         !.consecutive_losses = losses,
                         !.is_restricted =
                             IF losses >= MAX_CONSECUTIVE_LOSSES THEN TRUE
                             ELSE @]
           /\ ev' = [Event("place", placed.orders, <<>>) EXCEPT
                       !.result = placed.result]
    /\ pc' = "sleep"
    /\ verdict' = NoSignal
    /\ UNCHANGED <<lifted, pmVars, trading_state, signalVars, SHUTDOWN_EVENT>>

\* line 484: time.sleep(0.05)
Sleep ==
    /\ pc = "sleep"
    /\ pc' = "loop"
    /\ ev' = [Event("sleep", <<>>, <<>>) EXCEPT !.slept = "poll"]
    /\ UNCHANGED <<lifted, pmVars, trading_state,
                   state, signalVars, SHUTDOWN_EVENT, positions, verdict>>

\* an exception that ends the thread
Except_terminates ==
    /\ pc = "except"
    /\ pc' = "stopped"
    /\ ev' = [Event("except", <<>>, <<>>) EXCEPT !.slept = "backoff"]
    /\ UNCHANGED <<lifted, pmVars, trading_state,
                   state, signalVars, SHUTDOWN_EVENT, positions, verdict>>

\* lines 486-489: the exception is logged unless the shutdown signal is
\* set, and time.sleep(1) at line 489 runs in either case
Except ==
    /\ pc = "except"
    /\ pc' = "loop"
    /\ ev' = [Event("except", <<>>, <<>>) EXCEPT !.slept = "backoff"]
    /\ UNCHANGED <<lifted, pmVars, trading_state,
                   state, signalVars, SHUTDOWN_EVENT, positions, verdict>>

\* another thread sets the shutdown signal
Shutdown ==
    /\ ~SHUTDOWN_EVENT
    /\ SHUTDOWN_EVENT' = TRUE
    /\ ev' = NoEvent
    /\ UNCHANGED <<lifted, pmVars, trading_state,
                   state, signalVars, pc, positions, verdict>>

\* the market moves the profit of an open position
MarketMove ==
    /\ \E i \in 1..Len(positions) :
       \E profit \in PositionProfits \ {positions[i].profit} :
          positions' = [positions EXCEPT ![i].profit = profit]
    /\ ev' = NoEvent
    /\ UNCHANGED <<lifted, pmVars, trading_state,
                   state, signalVars, SHUTDOWN_EVENT, pc, verdict>>

\* time passes for the trader
TraderTick(dt) ==
    /\ now + dt <= MaxTraderNow
    /\ now' = now + dt
    /\ ev' = NoEvent
    /\ UNCHANGED <<lifted, pmVars, trading_state,
                   state, is_conservative_mode, HIGH_CONFIDENCE_THRESHOLD,
                   sig, last_neutral, SHUTDOWN_EVENT, pc, positions,
                   verdict>>

NextTrader ==
    \/ LoopTest
    \/ Manage
    \/ Gate
    \/ Signal
    \/ Check
    \/ Place
    \/ Sleep
    \/ Except
    \/ Shutdown
    \/ MarketMove
    \/ \E dt \in TimeSteps : TraderTick(dt)

SpecTrader == InitTrader /\ [][NextTrader]_vars

\* the order requests of the reversals of the last pass
RECURSIVE ReversalOrders(_)
ReversalOrders(log) ==
    IF log = <<>> THEN <<>>
    ELSE Head(log).orders \o ReversalOrders(Tail(log))

\* C4: once SHUTDOWN_EVENT is set, symbol_trader sends no entry order and
\* manage_open_positions sends no opposite-direction order of a reversal.
C4_NoOrderAfterShutdown ==
    ev.shutdown => (ev.entry = <<>> /\ ReversalOrders(ev.log) = <<>>)

\* the opposite side of a position
Opposite(type) == IF type = "buy" THEN "sell" ELSE "buy"

\* C6: whenever the reversal condition fires for a position, the pass
\* closes that position exactly once with success and opens exactly one
\* position of the opposite direction, whose requested volume is the state
\* volume times the reversal multiplier, clamped into
\* [volume_min, volume_max], whatever the venue answers.
C6_ReversalClosesAndOpens ==
    \A i \in 1..Len(ev.log) :
        LET l == ev.log[i]
            accepted == SelectSeq(l.orders, LAMBDA o : o.accepted)
        IN  l.reversal =>
              /\ l.closes_done = 1
              /\ Len(accepted) = 1
              /\ accepted[1].side = Opposite(l.type)
              /\ accepted[1].volume
                    = ClampVolume(ReversalVolume(l.volume_before))

\* ------------------------------------------------------------------------
\* src/trading_2.py: risk adaptation and eligibility
\* ------------------------------------------------------------------------

\* lines 37-41: the volume adjustment
AdjustVolume_2(volume, win_rate) ==
    IF FracGT(win_rate, 6, 10)
        THEN Min2(Scale(volume, 110), Scale(INITIAL_VOLUME, 150))
    ELSE IF FracLT(win_rate, 4, 10)
        THEN Max2(Scale(volume, 90), Scale(INITIAL_VOLUME, 70))
    ELSE volume

\* lines 43-47: the profit threshold adjustment
AdjustThreshold_2(profit_threshold, profit) ==
    IF profit > profit_threshold THEN Scale(profit_threshold, 105)
    ELSE IF profit < 0
        THEN Max2(MIN_PROFIT_THRESHOLD, Scale(profit_threshold, 95))
    ELSE profit_threshold

adjust_trading_parameters_2(s, profit) ==
    LET hist == Append(s.trades_history, profit)
        wr   == calculate_win_rate(RecentTrades(hist))
    IN  [s EXCEPT
            !.trades_count = @ + 1,
            !.trades_history = hist,
            !.win_rate = wr,
            !.volume = AdjustVolume_2(@, wr),
            !.profit_threshold = AdjustThreshold_2(@, profit)]

\* should_trade_symbol of trading_2: [result |-> "True", "False" or
\* "raise", state |-> the state it leaves].  A timedelta has no attribute
\* hours: line 55 raises AttributeError for a restricted instrument that
\* has a last_trade_time.
should_trade_symbol_2(s) ==
    IF s.is_restricted THEN
        IF s.last_trade_time # NoTime THEN [result |-> "raise", state |-> s]
        ELSE IF FracGT(s.win_rate, Scale(MIN_WIN_RATE, 80), 100)
            THEN [result |-> "True",
                  state |-> [s EXCEPT !.is_restricted = FALSE,
                                      !.consecutive_losses = 0]]
        ELSE [result |-> "False", state |-> s]
    ELSE [result |-> "True", state |-> s]

\* lines 138-154: the trend score
trend_score_2(current) ==
    LET adx == IF current.ADX_strong THEN 2 ELSE 0
        ma  == IF current.ma = "up" THEN adx + 1
               ELSE IF current.ma = "down" THEN adx - 1
               ELSE adx
    IN  IF current.rsi = "oversold" /\ ma > 0 THEN ma + 2
        ELSE IF current.rsi = "overbought" /\ ma < 0 THEN ma - 2
        ELSE ma

\* get_signal of trading_2 for an instrument that should_trade_symbol let
\* pass; rates is whether copy_rates_from_pos returned bars, calm whether
\* the volatility is below the threshold
get_signal_2(conservative, rates, calm, current) ==
    LET trend_score == trend_score_2(current)
        potential_profit == current.ATR * Abs(trend_score) * 10
        required_score   == IF conservative THEN 3 ELSE 2
        profit           == IF conservative THEN Scale(potential_profit, 80)
                            ELSE potential_profit
    IN  IF ~rates \/ calm THEN NoSignal
        ELSE IF trend_score >= required_score
            THEN [signal |-> "buy", atr |-> current.ATR,
                  potential_profit |-> profit]
        ELSE IF trend_score <= -required_score
            THEN [signal |-> "sell", atr |-> current.ATR,
                  potential_profit |-> profit]
        ELSE NoSignal

\* ------------------------------------------------------------------------
\* src/trading_2.py: manual interventions
\* ------------------------------------------------------------------------

\* state.last_known_positions: the attribute is missing ("unset"), holds
\* None ("none") or holds the tuple that positions_get returned ("some")
Snapshot(known, list) == [known |-> known, list |-> list]

\* lines 284-285: the details of a position changed
DetailsChanged(curr_pos, last_pos) ==
    \/ curr_pos.volume # last_pos.volume
    \/ Abs(curr_pos.profit - last_pos.profit) > 1

\* detect_manual_intervention: "True", "False", or "raise" for the
\* TypeError of len(None) at line 275; visible is whether positions_get
\* returned the positions
detect_manual_intervention(s, visible, current_positions) ==
    LET last == s.last_known_positions
    IN  IF ~visible /\ last.known = "some" /\ last.list # <<>> THEN "True"
        ELSE IF last.known = "unset" THEN "False"
        ELSE IF ~visible \/ last.known = "none" THEN "raise"
        ELSE IF Len(current_positions) # Len(last.list) THEN "True"
        ELSE IF \E i \in 1..Len(current_positions) :
                    DetailsChanged(current_positions[i], last.list[i])
            THEN "True"
        ELSE "False"

\* lines 267-269, 277-279, 287-289: the detection is recorded
RecordIntervention(t) ==
    [manual_intervention_detected |-> TRUE,
     last_manual_intervention_time |-> t,
     manual_intervention_cooldown |-> 83]

\* lines 421-427: the volume is reduced and the instrument may be
\* restricted
PenalizeIntervention(s) ==
    LET losses == s.consecutive_losses + 1
    IN  [s EXCEPT !.volume = Scale(@, 80),
                  !.consecutive_losses = losses,
                  !.is_restricted = IF losses > 3 THEN TRUE ELSE @]

\* ------------------------------------------------------------------------
\* src/trading_2.py: position management
\* ------------------------------------------------------------------------

\* what the venue answers to an order_send of close_position or
\* modify_stop_loss (lines 310-311, 324-325): "none" is a result of None,
\* whose retcode raises AttributeError
SendAnswers == {"none", "rejected", "done"}

ManageAnswers_2 == [close : SendAnswers, sl : SendAnswers]

\* a position management that leaves conservative mode whenever the
\* profit of the position is no longer at the threshold
ManagePosition_2_resetting(s, conservative, position, a) ==
    LET current_profit == position.profit
        s1 == [s EXCEPT !.max_profit = Max2(@, current_profit)]
        trailing_stop == Scale(s1.max_profit, PROFIT_LOCK_PERCENTAGE)
        same == [state |-> s1, conservative |-> FALSE,
                 raised |-> FALSE, closed |-> FALSE, sl_sent |-> FALSE]
    IN  IF current_profit >= 500 THEN
            IF a.close = "none" THEN [same EXCEPT !.raised = TRUE]
            ELSE IF a.close = "done"
                THEN [same EXCEPT
                        !.state = adjust_trading_parameters_2(
                                      s1, current_profit),
                        !.closed = TRUE]
            ELSE same
        ELSE IF current_profit >= s1.profit_threshold THEN
            IF current_profit < trailing_stop THEN
                IF a.close = "none"
                    THEN [same EXCEPT !.raised = TRUE,
                                      !.conservative = TRUE]
                ELSE [same EXCEPT
                        !.state = adjust_trading_parameters_2(
                                      s1, current_profit),
                        !.conservative = TRUE,
                        !.closed = (a.close = "done")]
            ELSE [same EXCEPT !.conservative = TRUE]
        ELSE IF current_profit < -3000 THEN
            [same EXCEPT !.raised = (a.sl = "none"), !.sl_sent = TRUE]
        ELSE same

\* lines 186-213, the body of the loop for one position; total_profit
\* (line 188) is written here and read nowhere, and is not kept
ManagePosition_2(s, conservative, position, a) ==
    LET current_profit == position.profit
        s1 == [s EXCEPT !.max_profit = Max2(@, current_profit)]
        trailing_stop == Scale(s1.max_profit, PROFIT_LOCK_PERCENTAGE)
        same == [state |-> s1, conservative |-> conservative,
                 raised |-> FALSE, closed |-> FALSE, sl_sent |-> FALSE]
    IN  IF current_profit >= 500 THEN
            IF a.close = "none" THEN [same EXCEPT !.raised = TRUE]
            ELSE IF a.close = "done"
                THEN [same EXCEPT
                        !.state = adjust_trading_parameters_2(
                                      s1, current_profit),
                        !.closed = TRUE]
            ELSE same
        ELSE IF current_profit >= s1.profit_threshold THEN
            IF current_profit < trailing_stop THEN
                IF a.close = "none"
                    THEN [same EXCEPT !.raised = TRUE,
                                      !.conservative = TRUE]
                ELSE [same EXCEPT
                        !.state = adjust_trading_parameters_2(
                                      s1, current_profit),
                        !.conservative = TRUE,
                        !.closed = (a.close = "done")]
            ELSE [same EXCEPT !.conservative = TRUE]
        ELSE IF current_profit < -3000 THEN
            [same EXCEPT !.raised = (a.sl = "none"), !.sl_sent = TRUE]
        ELSE same

RECURSIVE ManageLoop_2(_, _, _, _, _)
\* lines 186-213: for position in positions
ManageLoop_2(s, conservative, ps, venue, answers) ==
    IF ps = <<>>
        THEN [state |-> s, conservative |-> conservative, venue |-> venue,
              raised |-> FALSE]
    ELSE
        LET position == Head(ps)
            m == ManagePosition_2(s, conservative, position,
                                  answers[position.ticket])
            kept == SelectSeq(venue,
                              LAMBDA q : ~(m.closed
                                           /\ q.ticket = position.ticket))
        IN  IF m.raised
                THEN [state |-> m.state, conservative |-> m.conservative,
                      venue |-> kept, raised |-> TRUE]
            ELSE ManageLoop_2(m.state, m.conservative, Tail(ps), kept,
                              answers)

\* manage_open_positions of trading_2
manage_open_positions_2(s, conservative, venue, visible, answers) ==
    IF ~visible \/ venue = <<>>
        THEN [state |-> s, conservative |-> conservative, venue |-> venue,
              raised |-> FALSE]
    ELSE ManageLoop_2(s, conservative, venue, venue, answers)

\* lines 327-409: place_order of trading_2 fetches no rates
PlaceOrderAnswers_2 == PlaceOrderAnswers \ {"no_rates"}

RECURSIVE PenaltyVolume(_, _)
\* line 454: state.volume * (0.9 ** state.consecutive_losses)
PenaltyVolume(volume, losses) ==
    IF losses = 0 THEN volume
    ELSE PenaltyVolume(Scale(volume, 90), losses - 1)

\* place_order of trading_2: [result |-> "False" or "True", orders |->
\* the order requests it sent]
place_order_2(direction, atr, volume, answer) ==
    IF answer \in {"no_symbol_info", "no_tick"}
        THEN [result |-> "False", orders |-> <<>>]
    ELSE IF answer = "first_none"
        THEN [result |-> "False",
              orders |-> <<OrderRequest(direction, volume, "FOK", FALSE)>>]
    ELSE IF answer = "first_done"
        THEN [result |-> "True",
              orders |-> <<OrderRequest(direction, volume, "FOK", TRUE)>>]
    ELSE IF answer = "second_done"
        THEN [result |-> "True",
              orders |-> <<OrderRequest(direction, volume, "FOK", FALSE),
                           OrderRequest(direction, volume, "IOC", TRUE)>>]
    ELSE [result |-> "False",
          orders |-> <<OrderRequest(direction, volume, "FOK", FALSE),
                       OrderRequest(direction, volume, "IOC", FALSE)>>]

\* the positions the accepted orders of a call open at the venue, with the
\* fields that trading_2 reads
OpenedBy_2(orders, ticket) ==
    IF orders # <<>> /\ orders[Len(orders)].accepted
        THEN << [ticket |-> ticket,
                 type |-> orders[Len(orders)].side,
                 volume |-> orders[Len(orders)].volume,
                 profit |-> 0] >>
    ELSE <<>>

\* ------------------------------------------------------------------------
\* SpecTrader2: the symbol_trader thread of src/trading_2.py for one
\* symbol, the venue, manual interventions and the shutdown signal
\* ------------------------------------------------------------------------

InitState2 ==
    [ volume                |-> INITIAL_VOLUME,
      profit_threshold      |-> MIN_PROFIT_THRESHOLD,
      trades_history        |-> <<>>,
      trades_count          |-> 0,
      win_rate              |-> <<0, 1>>,
      consecutive_losses    |-> 0,
      is_restricted         |-> FALSE,
      last_trade_time       |-> NoTime,
      max_profit            |-> 0,
      last_known_positions  |-> Snapshot("unset", <<>>) ]

InitTrader2 ==
    /\ lifted = FALSE
    /\ state \in { InitState2,
                   [InitState2 EXCEPT
                       !.last_known_positions = Snapshot("some", <<>>)] }
    /\ ManagerIdle
    /\ trading_state = NoIntervention
    /\ now = 0
    /\ is_conservative_mode = FALSE
    /\ HIGH_CONFIDENCE_THRESHOLD = 60
    /\ sig = NoCall
    /\ last_neutral = NoTime
    /\ SHUTDOWN_EVENT = FALSE
    /\ pc = "detect"
    /\ positions = <<>>
    /\ verdict = NoSignal
    /\ ev = NoEvent

\* the variables the other steps of trading_2 leave alone
idleVars2 == <<HIGH_CONFIDENCE_THRESHOLD, sig, last_neutral, ev, pmVars>>

\* the last report of detect_manual_intervention since the venue's
\* positions were last changed from outside the loop: whose loop made it
\* ("own" for this instrument) and whether a cooldown was running then
Detected(by, ts) ==
    [NoEvent EXCEPT !.step = "detect", !.result = by,
                    !.slept = IF ts.manual_intervention_cooldown > 0
                                  THEN "cooldown" ELSE "none"]

\* lines 416-427: the detection of a manual intervention and its penalty
Detect2 ==
    /\ pc = "detect"
    /\ \E visible \in BOOLEAN :
       LET d == detect_manual_intervention(state, visible, positions)
       IN  /\ d = "True" => state.consecutive_losses < MaxLosses2
           /\ trading_state' = IF d = "True" THEN RecordIntervention(now)
                               ELSE trading_state
           /\ state' = IF d = "True" THEN PenalizeIntervention(state)
                       ELSE state
           /\ pc' = IF d = "raise" THEN "except" ELSE "cooldown"
           /\ ev' = IF d = "True" THEN Detected("own", trading_state)
                    ELSE ev
    /\ UNCHANGED <<lifted, now, is_conservative_mode, SHUTDOWN_EVENT, positions,
                   verdict, HIGH_CONFIDENCE_THRESHOLD, sig, last_neutral,
                   pmVars>>

\* lines 431-439: during the cooldown the iteration ends here, before the
\* positions are managed or stored
Cooldown2 ==
    /\ pc = "cooldown"
    /\ IF trading_state.manual_intervention_cooldown > 0
           THEN IF now - trading_state.last_manual_intervention_time > 7200
                    THEN /\ trading_state' =
                              [trading_state EXCEPT
                                 !.manual_intervention_detected = FALSE,
                                 !.manual_intervention_cooldown = 0]
                         /\ pc' = "manage"
                ELSE /\ pc' = "detect"
                     /\ UNCHANGED trading_state
       ELSE /\ pc' = "manage"
            /\ UNCHANGED trading_state
    /\ UNCHANGED <<lifted, state, now, is_conservative_mode, SHUTDOWN_EVENT,
                   positions, verdict, idleVars2>>

\* the venue's answers for the position with ticket k, if there is one
AnswersFor_2(ps, k) ==
    IF k \in TicketsOf(ps)
        THEN LET position == ps[CHOOSE i \in 1..Len(ps) : ps[i].ticket = k]
             IN  { a \in ManageAnswers_2 :
                     IF position.profit < 0 THEN a.close = "done"
                     ELSE a.sl = "done" }
    ELSE { [close |-> "done", sl |-> "done"] }

\* line 442: manage_open_positions(symbol)
Manage2 ==
    /\ pc = "manage"
    /\ Len(state.trades_history) + Len(positions) <= MaxTrades2
    /\ \E visible \in (IF positions = <<>> THEN {TRUE} ELSE BOOLEAN),
          answers \in { f \in [1..MaxPositions2 -> ManageAnswers_2] :
                          \A k \in 1..MaxPositions2 :
                              f[k] \in AnswersFor_2(positions, k) } :
          LET r == manage_open_positions_2(state, is_conservative_mode,
                                           positions, visible, answers)
          IN  /\ state' = r.state
              /\ is_conservative_mode' = r.conservative
              /\ positions' = r.venue
              /\ pc' = IF r.raised THEN "except" ELSE "trade"
    /\ UNCHANGED <<lifted, trading_state, now, SHUTDOWN_EVENT, verdict, idleVars2>>

\* lines 445-449: should_trade_symbol, the test for open positions and
\* get_signal
Trade2 ==
    /\ pc = "trade"
    /\ LET e == should_trade_symbol_2(state)
       IN  IF e.result = "raise"
               THEN /\ pc' = "except"
                    /\ UNCHANGED <<lifted, state, verdict>>
           ELSE IF e.result = "False"
               THEN /\ pc' = "store"
                    /\ UNCHANGED <<lifted, state, verdict>>
           ELSE
               /\ state' = e.state
               /\ \E visible \in BOOLEAN :
                    IF visible /\ positions # <<>>
                        THEN /\ pc' = "store"
                             /\ UNCHANGED verdict
                    ELSE \E rates \in BOOLEAN :
                         \E calm \in (IF rates THEN BOOLEAN ELSE {FALSE}) :
                         \E current \in (IF rates /\ ~calm THEN IndicatorRows
                                         ELSE {NoRow}) :
                            LET v == get_signal_2(is_conservative_mode,
                                                  rates, calm, current)
                            IN  /\ verdict' = IF Actionable(v) THEN v
                                              ELSE NoSignal
                                /\ pc' = IF Actionable(v) THEN "place"
                                         ELSE "store"
    /\ UNCHANGED <<lifted, trading_state, now, is_conservative_mode,
                   SHUTDOWN_EVENT, positions, idleVars2>>

\* lines 450-465: the entry order and its bookkeeping
Place2 ==
    /\ pc = "place"
    /\ \E answer \in PlaceOrderAnswers_2 :
       LET losses == state.consecutive_losses
           adjusted_volume == PenaltyVolume(state.volume, losses)
           placed == place_order_2(verdict.signal, verdict.atr,
                                   adjusted_volume, answer)
       IN  /\ Len(OpenedBy_2(placed.orders, 1)) + Len(positions)
                 <= MaxPositions2
           /\ placed.result = "False" => losses < MaxLosses2
           /\ positions' = positions \o
                 OpenedBy_2(placed.orders,
                            FreshTicket(TicketsOf(positions)))
           /\ state' =
                 IF placed.result = "True"
                     THEN [state EXCEPT
                             !.last_trade_time = now,
                             !.consecutive_losses = Max2(0, losses - 1)]
                 ELSE [state EXCEPT
                         !.consecutive_losses = losses + 1,
                         !.is_restricted =
                             IF losses + 1 >= MAX_CONSECUTIVE_LOSSES
                                 THEN TRUE ELSE @]
    /\ pc' = "store"
    /\ verdict' = NoSignal
    /\ UNCHANGED <<lifted, trading_state, now, is_conservative_mode,
                   SHUTDOWN_EVENT, idleVars2>>

\* lines 469-472: the positions are stored for the next comparison
Store2 ==
    /\ pc = "store"
    /\ \E visible \in BOOLEAN :
          state' = [state EXCEPT !.last_known_positions =
                       IF visible THEN Snapshot("some", positions)
                       ELSE Snapshot("none", <<>>)]
    /\ pc' = "detect"
    /\ UNCHANGED <<lifted, trading_state, now, is_conservative_mode,
                   SHUTDOWN_EVENT, positions, verdict, idleVars2>>

\* lines 474-476: the exception is logged and the loop goes on
Except2 ==
    /\ pc = "except"
    /\ pc' = "detect"
    /\ UNCHANGED <<lifted, trading_state, state, now, is_conservative_mode,
                   SHUTDOWN_EVENT, positions, verdict, idleVars2>>

\* the market moves the profit of an open position
MarketMove2 ==
    /\ \E i \in 1..Len(positions) :
       \E profit \in PositionProfits2 \ {positions[i].profit} :
          positions' = [positions EXCEPT ![i].profit = profit]
    /\ ev' = NoEvent
    /\ UNCHANGED <<lifted, trading_state, state, now, is_conservative_mode,
                   SHUTDOWN_EVENT, pc, verdict, HIGH_CONFIDENCE_THRESHOLD,
                   sig, last_neutral, pmVars>>

\* the account holder closes a position by hand
ManualClose ==
    /\ \E i \in 1..Len(positions) :
          positions' = SelectSeq(positions,
                                 LAMBDA q : q.ticket # positions[i].ticket)
    /\ ev' = NoEvent
    /\ UNCHANGED <<lifted, trading_state, state, now, is_conservative_mode,
                   SHUTDOWN_EVENT, pc, verdict, HIGH_CONFIDENCE_THRESHOLD,
                   sig, last_neutral, pmVars>>

\* time passes for the trader of trading_2
Tick2 ==
    /\ \E dt \in TimeSteps2 :
          /\ now + dt <= MaxNow2
          /\ now' = now + dt
    /\ UNCHANGED <<lifted, trading_state, state, is_conservative_mode,
                   SHUTDOWN_EVENT, pc, positions, verdict, idleVars2>>

\* the steps of the symbol_trader thread of trading_2
TraderStep2 ==
    \/ Detect2
    \/ Cooldown2
    \/ Manage2
    \/ Trade2
    \/ Place2
    \/ Store2
    \/ Except2

NextTrader2 ==
    \/ TraderStep2
    \/ Shutdown
    \/ MarketMove2
    \/ ManualClose
    \/ Tick2

SpecTrader2 == InitTrader2 /\ [][NextTrader2]_vars

\* C2: in every reachable state, the controller loop of trading_2 and its
\* handling of detected manual interventions included, the volume is at
\* most twice and at least half of INITIAL_VOLUME.
C2_VolumeWithinBounds ==
    /\ 2 * state.volume >= INITIAL_VOLUME
    /\ state.volume <= 2 * INITIAL_VOLUME

\* the scheduler is fair to the thread: a step of symbol_trader that can
\* be taken is eventually taken
FairTrader2 == SpecTrader2 /\ WF_vars(TraderStep2)

\* C5: after SHUTDOWN_EVENT is set the controller loop eventually exits.
C5_LoopExitsAfterShutdown == SHUTDOWN_EVENT ~> (pc = "stopped")

\* ------------------------------------------------------------------------
\* The venue's prices and stop-losses
\* ------------------------------------------------------------------------

Ask(bid) == bid + Spread

\* position.price_current: the price at which the position would close
price_current(position, bid) ==
    IF position.type = "buy" THEN bid ELSE Ask(bid)

\* position.profit: the floating profit in cents
Profit(position, bid) ==
    LET diff == IF position.type = "buy" THEN bid - position.price_open
                ELSE position.price_open - Ask(bid)
    IN  (diff * position.volume * MoneyPerStep) \div INITIAL_VOLUME

\* the position as positions_get returns it
Observed(position, bid) ==
    [ticket |-> position.ticket, type |-> position.type,
     volume |-> position.volume, time |-> position.time,
     price_open |-> position.price_open, sl |-> position.sl,
     price_current |-> price_current(position, bid),
     profit |-> Profit(position, bid)]

\* the venue closes a position whose stop-loss the price has reached
StopHit(position, bid) ==
    /\ position.sl # NoSL
    /\ IF position.type = "buy" THEN bid <= position.sl
       ELSE Ask(bid) >= position.sl

\* the venue accepts a stop-loss only on the losing side of the price
ValidStop(position, new_sl, bid) ==
    IF position.type = "buy" THEN new_sl < bid ELSE new_sl > Ask(bid)

\* a stop-loss modification request as the venue receives it
StopRequest(position, new_sl, by) ==
    [ticket |-> position.ticket, type |-> position.type,
     old_sl |-> position.sl, new_sl |-> new_sl, by |-> by]

\* the venue's positions after a stop-loss request that it answers with
\* answer
AfterStopRequest(venue, position, new_sl, bid, answer) ==
    [ i \in 1..Len(venue) |->
        IF /\ venue[i].ticket = position.ticket
           /\ answer = "done"
           /\ ValidStop(venue[i], new_sl, bid)
            THEN [venue[i] EXCEPT !.sl = new_sl]
        ELSE venue[i] ]

\* ------------------------------------------------------------------------
\* src/trading/position_manager.py: PositionManager
\* ------------------------------------------------------------------------

\* The checks of a pass work on a context c:
\*   state           the instrument state
\*   venue           the venue's open positions
\*   trailing_stops  self.trailing_stops
\*   log             what the checks did for the position, for the
\*                   properties
\* The order manager and the risk manager are not part of the sources:
\* close_position and place_order answer as those of src/trading.py, and
\* adjust_trading_parameters is that of src/trading.py.

\* the venue's answers during the checks of one position; a lookup that
\* fails fails for the whole pass
ManagerAnswers ==
    [age_close : {"rejected", "done"}, profit_close : {"rejected", "done"},
     reversal_close : {"rejected", "done"}, tick_ok : BOOLEAN,
     info_ok : BOOLEAN, sl : {"rejected", "done"}, atr_ok : BOOLEAN,
     place : PlaceOrderAnswers, scale : {"rejected", "done"}]

\* the venue closes the position if it answers "done" and the position is
\* still open
CloseDone(c, position, answer) ==
    answer = "done" /\ position.ticket \in TicketsOf(c.venue)

\* order_manager.close_position(position)
OrderManager_close_position(c, position, answer) ==
    LET done == CloseDone(c, position, answer)
    IN  [c EXCEPT
           !.venue = IF done
                         THEN SelectSeq(@, LAMBDA q :
                                             q.ticket # position.ticket)
                     ELSE @,
           !.log.close_calls = @ + 1,
           !.log.closes_done = @ + (IF done THEN 1 ELSE 0)]

\* lines 241-251
PositionManager_check_position_age(c, position, t, a) ==
    IF t - position.time >= 30 /\ position.profit < 0
        THEN OrderManager_close_position(c, position, a.age_close)
    ELSE c

\* lines 253-264
PositionManager_manage_position_profit(c, position, a) ==
    IF position.profit <= -1580 THEN
        LET c1 == OrderManager_close_position(c, position, a.profit_close)
        IN  IF CloseDone(c, position, a.profit_close)
                THEN [c1 EXCEPT
                        !.state = adjust_trading_parameters(
                                      @, position.profit),
                        !.log.adjusts = @ + 1]
            ELSE c1
    ELSE c

\* lines 207-239
PositionManager_modify_stop_loss(c, position, new_sl, bid, answer) ==
    [c EXCEPT
       !.venue = AfterStopRequest(@, position, new_sl, bid, answer),
       !.log.sl_requests =
           Append(@, StopRequest(position, new_sl, "trailing"))]

\* a trailing stop that moves the stop-loss whenever a new extreme is
\* reached
MovesStop_always(position, new_sl) == TRUE

\* lines 187 and 201: only move the stop-loss up for a long position and
\* down for a short one; the venue never reports a stop-loss of None
MovesStop(position, new_sl) ==
    IF position.type = "buy" THEN new_sl > position.sl
    ELSE new_sl < position.sl

\* lines 144-156: the entry of a position that is seen for the first time
FirstSighting(trailing, position) ==
    IF position.ticket \in DOMAIN trailing THEN trailing
    ELSE (position.ticket :>
            [highest_price |-> IF position.type = "buy"
                                   THEN position.price_current ELSE inf,
             lowest_price  |-> IF position.type = "sell"
                                   THEN position.price_current ELSE -inf])
         @@ trailing

\* lines 129-205
PositionManager_manage_trailing_stop(c, position, bid, a) ==
    IF ~a.tick_ok THEN c
    ELSE
      LET current_price == IF position.type = "buy" THEN bid ELSE Ask(bid)
          id == position.ticket
          seen == [c EXCEPT
                     !.trailing_stops = FirstSighting(@, position)]
          entry == seen.trailing_stops[id]
      IN  IF position.profit <= 0 \/ ~a.info_ok THEN seen
          ELSE IF position.type = "buy" THEN
              IF current_price > entry.highest_price THEN
                  LET moved == [seen EXCEPT
                                  !.trailing_stops[id].highest_price =
                                      current_price]
                      new_sl == current_price - min_stop_distance
                  IN  IF MovesStop(position, new_sl)
                          THEN PositionManager_modify_stop_loss(
                                   moved, position, new_sl, bid, a.sl)
                      ELSE moved
              ELSE seen
          ELSE
              IF current_price < entry.lowest_price THEN
                  LET moved == [seen EXCEPT
                                  !.trailing_stops[id].lowest_price =
                                      current_price]
                      new_sl == current_price + min_stop_distance
                  IN  IF MovesStop(position, new_sl)
                          THEN PositionManager_modify_stop_loss(
                                   moved, position, new_sl, bid, a.sl)
                      ELSE moved
              ELSE seen

\* the tickets that the venue has given out and that are still remembered
UsedTickets(c) == TicketsOf(c.venue) \cup DOMAIN c.trailing_stops

\* the venue's tickets are never reused
NextTicket(used) ==
    IF used = {} THEN 1
    ELSE 1 + CHOOSE k \in used : \A j \in used : j <= k

\* the position that an accepted order request opens at the venue
OpenedPosition(order, ticket, t, bid, sl) ==
    [ticket |-> ticket, type |-> order.side, volume |-> order.volume,
     time |-> t,
     price_open |-> IF order.side = "buy" THEN Ask(bid) ELSE bid,
     sl |-> sl]

\* lines 361-370 of src/trading.py: the stop-loss of an order of place_order
OrderStop(side, bid) ==
    IF side = "buy" THEN Ask(bid) - sl_distance ELSE bid + sl_distance

\* the venue's positions after the order requests of one call
AfterOrders(venue, orders, ticket, t, bid, with_sl) ==
    IF orders # <<>> /\ orders[Len(orders)].accepted
        THEN LET order == orders[Len(orders)]
             IN  Append(venue,
                        OpenedPosition(order, ticket, t, bid,
                                       IF with_sl
                                           THEN OrderStop(order.side, bid)
                                       ELSE NoSL))
    ELSE venue

\* lines 266-288
PositionManager_check_reversal_conditions(c, position, t, bid, a) ==
    IF position.profit <= POSITION_REVERSAL_THRESHOLD THEN
        LET c1 == OrderManager_close_position(c, position, a.reversal_close)
            reversal_direction == Opposite(position.type)
            placed == place_order(reversal_direction, 3,
                                  Scale(c.state.volume, 75), a.place)
        IN  IF CloseDone(c, position, a.reversal_close) /\ a.atr_ok
                THEN [c1 EXCEPT
                        !.venue = AfterOrders(
                                      @, placed.orders,
                                      NextTicket(UsedTickets(c)
                                                 \cup {position.ticket}),
                                      t, bid, TRUE),
                        !.log.orders = @ \o placed.orders]
            ELSE c1
    ELSE c

\* lines 41: the profit percentage, in 1/100 percent
profit_percent(position) ==
    (position.profit * PercentPerStep * INITIAL_VOLUME)
        \div (MoneyPerStep * position.volume)

\* lines 55-65: the volume increase, in percent, of the last scaling rule
\* that applies, 0 if none does
applicable_rule(percent) ==
    IF percent >= 150 THEN 150
    ELSE IF percent >= 70 THEN 100
    ELSE IF percent >= 30 THEN 50
    ELSE 0

\* line 80: round(new_volume / volume_step) * volume_step, where round
\* rounds a half to the even neighbour
RoundToStep(volume) ==
    LET q == volume \div volume_step
        r == volume % volume_step
    IN  IF 2 * r < volume_step THEN q * volume_step
        ELSE IF 2 * r > volume_step THEN (q + 1) * volume_step
        ELSE IF q % 2 = 0 THEN q * volume_step
        ELSE (q + 1) * volume_step

\* lines 33-127: the scale-up order opens a position of its own, without
\* stop-loss
PositionManager_scale_profitable_position(c, position, t, bid, a) ==
    LET rule == applicable_rule(profit_percent(position))
        volume_increase == Scale(position.volume, rule)
        new_volume ==
            RoundToStep(Max2(Min2(position.volume + volume_increase,
                                  volume_max),
                             volume_min))
        order == [side |-> position.type, volume |-> volume_increase,
                  filling |-> "IOC", accepted |-> a.scale = "done"]
    IN  IF position.profit <= 0 THEN c
        ELSE IF ~a.tick_ok \/ ~a.info_ok THEN c
        ELSE IF rule = 0 THEN c
        ELSE IF Abs(new_volume - position.volume) < volume_step THEN c
        ELSE [c EXCEPT
                !.venue = AfterOrders(@, <<order>>,
                                      NextTicket(UsedTickets(c)),
                                      t, bid, FALSE),
                !.log.orders = Append(@, order)]

\* what the checks of a pass did for a position, before they ran
NewLog(position) ==
    [ticket |-> position.ticket, type |-> position.type,
     profit |-> position.profit, close_calls |-> 0, closes_done |-> 0,
     adjusts |-> 0, sl_requests |-> <<>>, orders |-> <<>>]

\* lines 27-31: the five checks of one position
ManagePosition_PM(c, position, t, bid, a) ==
    LET c0 == [c EXCEPT !.log = NewLog(position)]
        c1 == PositionManager_check_position_age(c0, position, t, a)
        c2 == PositionManager_manage_position_profit(c1, position, a)
        c3 == PositionManager_manage_trailing_stop(c2, position, bid, a)
        c4 == PositionManager_check_reversal_conditions(c3, position, t,
                                                        bid, a)
    IN  PositionManager_scale_profitable_position(c4, position, t, bid, a)

RECURSIVE ManageLoop_PM(_, _, _, _, _)
\* lines 26-31: for position in positions; logs collects the logs
ManageLoop_PM(c, ps, t, bid, answers) ==
    IF ps = <<>> THEN [c EXCEPT !.log = <<>>]
    ELSE LET c1 == ManagePosition_PM(c, Head(ps), t, bid,
                                     answers[Head(ps).ticket])
             rest == ManageLoop_PM(c1, Tail(ps), t, bid, answers)
         IN  [rest EXCEPT !.log = <<c1.log>> \o @]

\* PositionManager.manage_open_positions(symbol, trading_state)
PositionManager_manage_open_positions(s, venue, trailing, t, bid, visible, answers) ==
    LET c == [state |-> s, venue |-> venue, trailing_stops |-> trailing,
              log |-> <<>>]
        ps == [ i \in 1..Len(venue) |-> Observed(venue[i], bid) ]
    IN  IF ~visible \/ venue = <<>> THEN c
        ELSE ManageLoop_PM(c, ps, t, bid, answers)

\* ------------------------------------------------------------------------
\* SpecManager: position management on a venue with prices and stop-losses,
\* by PositionManager (pc = "manager") or by manage_open_positions of
\* src/trading_2.py (pc = "trader_2")
\* ------------------------------------------------------------------------

InitManager ==
    /\ lifted = FALSE
    /\ pc \in {"manager", "trader_2"}
    /\ state = IF pc = "manager" THEN InitState ELSE InitState2
    /\ SignalIdle
    /\ trading_state = NoIntervention
    /\ SHUTDOWN_EVENT = FALSE
    /\ positions = <<>>
    /\ verdict = NoSignal
    /\ ev = NoEvent
    /\ tick \in MinPrice..MaxPrice
    /\ trailing_stops = <<>>

managerIdleVars ==
    <<HIGH_CONFIDENCE_THRESHOLD, sig, last_neutral, trading_state,
      SHUTDOWN_EVENT, pc, verdict>>

\* the answers that the checks of a position can read; the others are fixed
AnswersOf_PM(position, t) ==
    LET aged == t - position.time >= 30 /\ position.profit < 0
        lost == position.profit <= -1580
        reverses == position.profit <= POSITION_REVERSAL_THRESHOLD
        wins == position.profit > 0
    IN  { a \in
            [age_close : IF aged THEN {"rejected", "done"} ELSE {"done"},
             profit_close : IF lost THEN {"rejected", "done"} ELSE {"done"},
             reversal_close : IF reverses THEN {"rejected", "done"}
                              ELSE {"done"},
             tick_ok : BOOLEAN,
             info_ok : IF wins THEN BOOLEAN ELSE {TRUE},
             sl : IF wins THEN {"rejected", "done"} ELSE {"done"},
             atr_ok : IF reverses THEN BOOLEAN ELSE {TRUE},
             place : IF reverses THEN {"first_done", "second_rejected"}
                     ELSE {"first_done"},
             scale : IF wins THEN {"rejected", "done"} ELSE {"done"}] :
            /\ ~a.atr_ok => a.place = "first_done"
            /\ (~a.tick_ok \/ ~a.info_ok) =>
                   (a.sl = "done" /\ a.scale = "done")
            /\ ~a.tick_ok => a.info_ok
            /\ (aged /\ a.age_close = "done") =>
                   (a.profit_close = "done" /\ a.reversal_close = "done")
            /\ (lost /\ a.profit_close = "done") =>
                   a.reversal_close = "done"
            /\ (\/ aged /\ a.age_close = "done"
                \/ lost /\ a.profit_close = "done"
                \/ a.reversal_close = "rejected") =>
                   (a.atr_ok /\ a.place = "first_done") }

RECURSIVE AnswerMaps(_, _)
\* the venue's answers of a pass: one record for each position
AnswerMaps(ps, t) ==
    IF ps = <<>> THEN { <<>> }
    ELSE { (Head(ps).ticket :> a) @@ m :
             a \in AnswersOf_PM(Head(ps), t), m \in AnswerMaps(Tail(ps), t) }

\* one call of PositionManager.manage_open_positions
ManagerPass ==
    /\ pc = "manager"
    /\ Len(state.trades_history) < MaxManagerTrades
    /\ \E visible \in (IF positions = <<>> THEN {TRUE} ELSE BOOLEAN) :
       \E answers \in
            AnswerMaps(IF visible
                           THEN [ i \in 1..Len(positions) |->
                                    Observed(positions[i], tick) ]
                       ELSE <<>>, now) :
          LET r == PositionManager_manage_open_positions(
                       state, positions, trailing_stops, now, tick,
                       visible, answers)
          IN  /\ TicketsOf(r.venue) \subseteq 1..MaxTickets
              /\ state' = r.state
              /\ positions' = r.venue
              /\ trailing_stops' = r.trailing_stops
              /\ ev' = Event("pass", <<>>, r.log)
    /\ UNCHANGED <<lifted, now, is_conservative_mode, tick, managerIdleVars>>

\* lines 313-325 of src/trading_2.py: the stop-loss that modify_stop_loss
\* requests
modify_stop_loss_2(position) ==
    IF position.profit < 0 THEN position.price_open ELSE position.sl

RECURSIVE ManageLog_2(_, _, _, _)
\* lines 186-213 of src/trading_2.py: what the loop does for each position
\* that it reaches
ManageLog_2(s, conservative, ps, answers) ==
    IF ps = <<>> THEN <<>>
    ELSE
        LET position == Head(ps)
            a == answers[position.ticket]
            m == ManagePosition_2(s, conservative, position, a)
            log == [NewLog(position) EXCEPT
                      !.closes_done = IF m.closed THEN 1 ELSE 0,
                      !.sl_requests =
                          IF m.sl_sent
                              THEN <<StopRequest(
                                       position,
                                       modify_stop_loss_2(position),
                                       "modify_stop_loss")>>
                          ELSE <<>>]
        IN  <<log>> \o (IF m.raised THEN <<>>
                        ELSE ManageLog_2(m.state, m.conservative, Tail(ps),
                                         answers))

RECURSIVE AfterStopRequests_2(_, _, _, _)
\* the venue's positions after the stop-loss requests of a pass
AfterStopRequests_2(venue, log, bid, answers) ==
    IF log = <<>> THEN venue
    ELSE LET l == Head(log)
             after ==
                 IF l.sl_requests = <<>> THEN venue
                 ELSE AfterStopRequest(venue, l, l.sl_requests[1].new_sl,
                                       bid, answers[l.ticket].sl)
         IN  AfterStopRequests_2(after, Tail(log), bid, answers)

\* the answers that manage_open_positions of trading_2 can read for a
\* position
AnswersOf_2(position) ==
    { a \in ManageAnswers_2 :
        /\ position.profit < 0 => a.close = "done"
        /\ position.profit >= -3000 => a.sl = "done" }

RECURSIVE AnswerMaps_2(_)
AnswerMaps_2(ps) ==
    IF ps = <<>> THEN { <<>> }
    ELSE { (Head(ps).ticket :> a) @@ m :
             a \in AnswersOf_2(Head(ps)), m \in AnswerMaps_2(Tail(ps)) }

\* one call of manage_open_positions of src/trading_2.py on the priced
\* venue
ManagePriced2 ==
    /\ pc = "trader_2"
    /\ Len(state.trades_history) + Len(positions) <= MaxManagerTrades
    /\ LET ps == [ i \in 1..Len(positions) |->
                     Observed(positions[i], tick) ]
       IN  \E visible \in (IF positions = <<>> THEN {TRUE} ELSE BOOLEAN) :
           \E answers \in AnswerMaps_2(IF visible THEN ps ELSE <<>>) :
              LET r == manage_open_positions_2(
                           state, is_conservative_mode, ps, visible, answers)
                  log == IF visible
                             THEN ManageLog_2(state, is_conservative_mode,
                                              ps, answers)
                         ELSE <<>>
                  kept == SelectSeq(positions,
                                    LAMBDA q : q.ticket
                                                 \in TicketsOf(r.venue))
              IN  /\ state' = r.state
                  /\ is_conservative_mode' = r.conservative
                  /\ positions' = AfterStopRequests_2(kept, log, tick,
                                                      answers)
                  /\ ev' = Event("manage_2", <<>>, log)
    /\ UNCHANGED <<lifted, now, tick, trailing_stops, managerIdleVars>>

\* an entry order of the trader is filled: the trader enters only while it
\* sees no open position (lines 451-454 of src/trading.py, line 447 of
\* src/trading_2.py), and lines 361-370 of src/trading.py and lines 349-358
\* of src/trading_2.py give the order a stop-loss
EntryFilled ==
    /\ positions = <<>>
    /\ \E side \in {"buy", "sell"} :
          LET ticket == NextTicket(TicketsOf(positions)
                                   \cup DOMAIN trailing_stops)
              order == OrderRequest(side, INITIAL_VOLUME, "FOK", TRUE)
          IN  /\ ticket <= MaxTickets
              /\ positions' = AfterOrders(positions, <<order>>, ticket, now,
                                          tick, TRUE)
    /\ ev' = NoEvent
    /\ UNCHANGED <<lifted, state, now, is_conservative_mode, tick, trailing_stops,
                   managerIdleVars>>

\* the venue's price moves and the venue closes the positions whose
\* stop-loss it reaches
PriceMove ==
    /\ \E bid \in (MinPrice..MaxPrice) \ {tick} :
          /\ tick' = bid
          /\ positions' = SelectSeq(positions,
                                    LAMBDA q : ~StopHit(q, bid))
    /\ ev' = NoEvent
    /\ UNCHANGED <<lifted, state, now, is_conservative_mode, trailing_stops,
                   managerIdleVars>>

\* the stop-loss that sits one price step from the closing price
TightStop(position, bid) ==
    IF position.type = "buy" THEN bid - 1 ELSE Ask(bid) + 1

\* the stop-loss that place_order gave the position
EntryStop(position) ==
    IF position.type = "buy" THEN position.price_open - sl_distance
    ELSE position.price_open + sl_distance

\* the operator moves the stop-loss that place_order gave a position next
\* to the price, or removes it
ManualStop ==
    /\ \E i \in 1..Len(positions) :
       \E sl \in {NoSL, TightStop(positions[i], tick)} :
          /\ positions[i].sl = EntryStop(positions[i])
          /\ sl # positions[i].sl
          /\ positions' = [positions EXCEPT ![i].sl = sl]
    /\ ev' = NoEvent
    /\ UNCHANGED <<lifted, state, now, is_conservative_mode, tick, trailing_stops,
                   managerIdleVars>>

\* time passes
ManagerTick ==
    /\ now + MaxTraderNow <= MaxTraderNow
    /\ now' = now + MaxTraderNow
    /\ ev' = NoEvent
    /\ UNCHANGED <<lifted, state, is_conservative_mode, positions, tick,
                   trailing_stops, managerIdleVars>>

NextManager ==
    \/ ManagerPass
    \/ ManagePriced2
    \/ EntryFilled
    \/ PriceMove
    \/ ManualStop
    \/ ManagerTick

SpecManager == InitManager /\ [][NextManager]_vars

RECURSIVE StopRequests(_)
\* the stop-loss modification requests of the last pass
StopRequests(log) ==
    IF log = <<>> THEN <<>>
    ELSE Head(log).sl_requests \o StopRequests(Tail(log))

\* the request does not move the stop-loss away from the price
Favorable(r) ==
    IF r.type = "buy" THEN r.new_sl >= r.old_sl ELSE r.new_sl <= r.old_sl

\* C7: every stop-loss modification that _manage_trailing_stop or
\* modify_stop_loss sends for a position that has a stop-loss is monotonic
\* in the favorable direction: for a long position the new stop-loss is
\* never lower than the position's current stop-loss, and for a short
\* position never higher.
C7_StopLossMonotone ==
    \A i \in 1..Len(StopRequests(ev.log)) :
        LET r == StopRequests(ev.log)[i]
        IN  r.old_sl # NoSL => Favorable(r)

\* a pass in which the trailing stop raises the stop-loss of a long
\* position
C7_Witness ==
    \E i \in 1..Len(StopRequests(ev.log)) :
        LET r == StopRequests(ev.log)[i]
        IN  /\ r.old_sl # NoSL
            /\ r.by = "trailing"
            /\ r.type = "buy"
            /\ r.new_sl > r.old_sl

\* C7 as stated, for every position: the new stop-loss is never lower than
\* the position's sl for a long position and never higher for a short one,
\* where a position without stop-loss has an sl of 0.0
C7_EveryRequestMonotone ==
    \A i \in 1..Len(StopRequests(ev.log)) :
        Favorable(StopRequests(ev.log)[i])

\* C10: at the end of every position-management pass, trailing_stops has
\* an entry for a ticket if and only if the position of that ticket is
\* open.
C10_TrailingEntryIffOpen ==
    ev.step = "pass" => DOMAIN trailing_stops = TicketsOf(positions)

\* ------------------------------------------------------------------------
\* Properties of symbol_trader of src/trading.py (SpecTrader, SpecRisk)
\* ------------------------------------------------------------------------

C12_AdjustOncePerClose ==
    ev.step = "manage" =>
        \A i \in 1..Len(ev.log) : ev.log[i].adjusts = ev.log[i].closes_done

\* the last n recorded outcomes are losses
LastLost(history, n) ==
    /\ Len(history) >= n
    /\ \A i \in (Len(history) - n + 1)..Len(history) : history[i] < 0

\* C13: after MAX_CONSECUTIVE_LOSSES losing outcomes in a row have been
\* recorded, consecutive_losses is at least MAX_CONSECUTIVE_LOSSES and
\* is_restricted is true.
C13_LossStreakRestricts ==
    LastLost(state.trades_history, MAX_CONSECUTIVE_LOSSES) =>
        /\ state.consecutive_losses >= MAX_CONSECUTIVE_LOSSES
        /\ state.is_restricted

\* the venue accepted an order of the call
Filled(orders) == orders # <<>> /\ orders[Len(orders)].accepted

\* C14: after a successful entry fill, last_trade_time is the fill time and
\* consecutive_losses is reduced by one, not below zero.
C14_FillBookkeeping ==
    [][(pc = "place" /\ ev'.step = "place" /\ Filled(ev'.entry)) =>
          /\ state'.last_trade_time = now
          /\ state'.consecutive_losses =
                 Max2(0, state.consecutive_losses - 1)]_vars

C16_RetriedOnce ==
    (ev.entry # <<>> /\ ~ev.entry[1].accepted) =>
        (Len(ev.entry) = 2 /\ ev.entry[2].filling = "IOC")

\* C17: no failure raised by a step of an iteration terminates the loop:
\* the thread stops only after the shutdown signal, and after an error the
\* loop is back at its test.
C17_ErrorsDoNotTerminate ==
    /\ pc = "stopped" => SHUTDOWN_EVENT
    /\ ev.step = "except" => pc = "loop"

\* an error was caught without the shutdown signal and the loop goes on
C17_Witness ==
    /\ ev.step = "except"
    /\ ~ev.shutdown
    /\ pc = "loop"

\* C18: when an iteration raises an error during shutdown, no backoff sleep
\* is performed.
C18_NoBackoffDuringShutdown ==
    (ev.step = "except" /\ ev.shutdown) => ev.slept = "none"

\* C19: every iteration that does not exit the loop sleeps before the next
\* iteration begins: while the shutdown signal is not set, the step that
\* returns to the top of the loop is a sleep.
C19_EveryIterationSleeps ==
    [][(pc # "loop" /\ pc' = "loop" /\ ~SHUTDOWN_EVENT') =>
          ev'.slept # "none"]_vars

\* the steps of the thread and the clock
TraderStep ==
    \/ LoopTest
    \/ Manage
    \/ Gate
    \/ Signal
    \/ Check
    \/ Place
    \/ Sleep
    \/ Except

TraderClock == \E dt \in TimeSteps : TraderTick(dt)

\* the thread is scheduled again and again, and time advances
FairTrader ==
    SpecTrader /\ WF_vars(TraderStep) /\ WF_vars(TraderClock)

\* C20: a restricted instrument is eventually unrestricted, unless the
\* shutdown signal ends the thread.
C20_EventuallyUnrestricted ==
    state.is_restricted ~> (~state.is_restricted \/ SHUTDOWN_EVENT)

\* ------------------------------------------------------------------------
\* Properties of the position-management pass (SpecManager)
\* ------------------------------------------------------------------------

\* C21: the checks of a pass of PositionManager.manage_open_positions
\* attempt at most one close for each position: once a check has called
\* close_position for a position, no later check of the pass calls it again
\* for that position.
C21_OneCloseAttemptPerPass ==
    (ev.step = "pass") =>
        \A i \in 1..Len(ev.log) : ev.log[i].close_calls <= 1

\* the volume of the open position with the given ticket
VolumeOf(ps, ticket) ==
    LET i == CHOOSE j \in 1..Len(ps) : ps[j].ticket = ticket
    IN  ps[i].volume

\* C22: the scale-up order that _scale_profitable_position sends brings the
\* position's total volume (old volume plus the order's volume) within
\* [volume_min, volume_max] and to a multiple of volume_step.
C22_ScaledVolumeWithinLimits ==
    [][(pc = "manager" /\ ev'.step = "pass") =>
          \A i \in 1..Len(ev'.log) :
             LET l == ev'.log[i]
             IN  (l.profit > 0 /\ l.orders # <<>>) =>
                    LET total == VolumeOf(positions, l.ticket)
                                     + l.orders[1].volume
                    IN  /\ total >= volume_min
                        /\ total <= volume_max
                        /\ total % volume_step = 0]_vars

\* ------------------------------------------------------------------------
\* Properties of should_trade_symbol and get_signal of src/trading.py
\* (SpecSignal, SpecTrader)
\* ------------------------------------------------------------------------

\* the last (at most three) realized trades sum to a loss and the last
\* trade time is less than 120 seconds before t
LosingInsideCooldown(s, t) ==
    /\ s.trades_history # <<>>
    /\ SumSeq(Tail_n(s.trades_history, 3)) < 0
    /\ s.last_trade_time # NoTime
    /\ t - s.last_trade_time < 120

\* C23: should_trade_symbol returns false whenever the last three realized
\* trades sum to a negative amount and the last trade time is less than
\* 120 s ago, and the call changes no state.
C23_SuppressedAfterRecentLosses ==
    [][(~sig.called /\ sig'.called /\ LosingInsideCooldown(state, now)) =>
          /\ ~sig'.eligible
          /\ state' = state]_vars

\* three losses in a row, the last fill 100 s ago, the instrument not
\* restricted: the call refused
C23_Witness ==
    /\ sig.called /\ ~sig.eligible
    /\ Len(state.trades_history) = 3
    /\ \A i \in 1..3 : state.trades_history[i] < 0
    /\ state.last_trade_time = 0 /\ sig.t = 100
    /\ ~state.is_restricted

\* C24: while the instrument is restricted and the restriction cooldown has
\* not elapsed or win_rate is not above MIN_WIN_RATE, should_trade_symbol
\* returns false and leaves is_restricted true; and every entry order of
\* symbol_trader is submitted in a state where is_restricted is false.
C24_RestrictedNeverEnters ==
    [][/\ (/\ pc = "gate" /\ ev'.step = "gate" /\ ~SHUTDOWN_EVENT
           /\ state.is_restricted
           /\ \/ (/\ state.last_trade_time # NoTime
                  /\ now - state.last_trade_time < 3600)
              \/ ~FracGT(state.win_rate, MIN_WIN_RATE, 100))
          => (state'.is_restricted /\ pc' # "signal")
       /\ (pc = "place" /\ ev'.step = "place" /\ ev'.entry # <<>>)
          => ~state.is_restricted]_vars

\* a restricted instrument with a fill inside the restriction cooldown and
\* no open position was refused by the check
C24_Witness ==
    /\ ev.step = "gate" /\ ~ev.shutdown /\ pc = "sleep"
    /\ state.is_restricted
    /\ state.last_trade_time # NoTime
    /\ now - state.last_trade_time < 3600
    /\ positions = <<>>

\* C25: for an eligible instrument with rates, get_signal returns neutral
\* whenever the predictor's confidence is at or below
\* NEUTRAL_CONFIDENCE_THRESHOLD or the absolute expected return is below
\* 0.0001, and symbol_trader sends no order on a neutral verdict: it goes
\* back to the loop test.
C25_NeutralOnLowConfidence ==
    [][/\ (/\ pc = "signal" /\ ev'.step = "signal"
           /\ ev'.call.eligible /\ ev'.call.rates
           /\ ev'.call.kind # "raise"
           /\ \/ ev'.call.ml.confidence <= NEUTRAL_CONFIDENCE_THRESHOLD
              \/ Abs(ev'.call.ml.predicted_return) < 10)
          => (verdict'.signal = "neutral" /\ verdict'.potential_profit = 0)
       /\ (pc = "check" /\ ev'.step = "check" /\ verdict.signal = "neutral")
          => (pc' = "loop" /\ positions' = positions)]_vars

\* the scenario: confidence 0.5 with expected return 0.00005 gave neutral
C25_Witness ==
    /\ ev.step = "signal" /\ ev.call.called
    /\ ev.call.eligible /\ ev.call.rates /\ ev.call.kind = "ok"
    /\ ev.call.ml.confidence = 50 /\ ev.call.ml.predicted_return = 5
    /\ verdict.signal = "neutral" /\ pc = "check"

\* the call that sig' describes passed all gates of get_signal in state s
\* at time t: eligible, rates, a prediction that is neither neutral nor of
\* low quality, no active neutral hold and no repeated direction
GatesPassed(s, t, call) ==
    /\ call.eligible /\ call.rates /\ call.kind = "ok"
    /\ call.ml.confidence > NEUTRAL_CONFIDENCE_THRESHOLD
    /\ call.ml.confidence >= 60
    /\ call.ml.predicted_return >= 10
    /\ ~(s.neutral_start_time # NoTime
         /\ t - s.neutral_start_time < NEUTRAL_HOLD_DURATION)
    /\ Occurrences(s.recent_trade_directions, call.ml.signal) < 2

\* the score after fusion and the score that the mode requires
FusedOf(call) == FusedScore(call.score, call.ml)
requiredScore == IF is_conservative_mode THEN 3 ELSE 2

\* the profit estimate ATR * |score| * 10, discounted by 20% in
\* conservative mode
EstimateOf(call) ==
    LET estimate == call.atr * Abs(FusedOf(call)) * 10
    IN  IF is_conservative_mode THEN (estimate * 80) \div 100 ELSE estimate

\* C26 as stated: when all gates are passed, the verdict is buy if the
\* fused score is >= requiredScore and sell if it is <= -requiredScore,
\* with the potential profit ATR * |score| * 10 (times 0.8 in conservative
\* mode), and that potential profit is > 0.
C26_ScoreDecidesWithPositiveProfit ==
    [][(~sig.called /\ sig'.called /\ GatesPassed(state, now, sig')) =>
          /\ FusedOf(sig') >= requiredScore =>
                /\ sig'.verdict.signal = "buy"
                /\ sig'.verdict.potential_profit = EstimateOf(sig')
                /\ sig'.verdict.potential_profit > 0
          /\ FusedOf(sig') <= -requiredScore =>
                /\ sig'.verdict.signal = "sell"
                /\ sig'.verdict.potential_profit = EstimateOf(sig')
                /\ sig'.verdict.potential_profit > 0]_vars

\* C26 as amended: when all gates are passed, the verdict is buy if the
\* fused score is >= requiredScore and sell if it is <= -requiredScore,
\* with the potential profit ATR * |score| * 10 (times 0.8 in conservative
\* mode); the potential profit is > 0 when the ATR is > 0.
C26_ScoreDecides ==
    [][(~sig.called /\ sig'.called /\ GatesPassed(state, now, sig')) =>
          /\ FusedOf(sig') >= requiredScore =>
                /\ sig'.verdict.signal = "buy"
                /\ sig'.verdict.potential_profit = EstimateOf(sig')
                /\ sig'.atr > 0 => sig'.verdict.potential_profit > 0
          /\ FusedOf(sig') <= -requiredScore =>
                /\ sig'.verdict.signal = "sell"
                /\ sig'.verdict.potential_profit = EstimateOf(sig')
                /\ sig'.atr > 0 => sig'.verdict.potential_profit > 0]_vars

\* the scenario: a fused score of 4 with conservative mode off gave buy
\* with a potential profit of ATR * 4 * 10
C26_Witness ==
    /\ sig.called /\ sig.eligible /\ sig.rates
    /\ ~is_conservative_mode
    /\ FusedOf(sig) = 4 /\ sig.atr = 3
    /\ sig.verdict.signal = "buy"
    /\ sig.verdict.potential_profit = 120

\* C27: get_signal returns an actionable verdict (buy or sell with a
\* positive profit estimate) only for a call in which should_trade_symbol
\* allowed the instrument, no neutral hold was active, and the predictor's
\* confidence was >= 0.6 with an expected return >= 0.0001.
C27_ActionableOnlyThroughGates ==
    [][(/\ ~sig.called /\ sig'.called
        /\ sig'.verdict.signal \in {"buy", "sell"}
        /\ sig'.verdict.potential_profit > 0) =>
          /\ sig'.eligible /\ sig'.rates
          /\ ~(/\ state.neutral_start_time # NoTime
               /\ now - state.neutral_start_time < NEUTRAL_HOLD_DURATION)
          /\ sig'.ml.confidence >= 60
          /\ sig'.ml.predicted_return >= 10]_vars

\* a neutral hold has expired and the next confident prediction gave an
\* actionable verdict
C27_Witness ==
    /\ sig.called /\ sig.eligible
    /\ sig.held_since # NoTime
    /\ sig.t - sig.held_since >= NEUTRAL_HOLD_DURATION
    /\ sig.ml.confidence >= 60 /\ sig.ml.predicted_return >= 10
    /\ sig.verdict.signal \in {"buy", "sell"}
    /\ sig.verdict.potential_profit > 0

\* ------------------------------------------------------------------------
\* SpecEntry: the entry path of symbol_trader of src/trading.py with the
\* stricter predictor threshold, in a quiet market and without shutdown
\* ------------------------------------------------------------------------

InitEntry ==
    /\ lifted = FALSE
    /\ ManagerIdle
    /\ trading_state = NoIntervention
    /\ state = InitState
    /\ now = 0
    /\ is_conservative_mode = FALSE
    /\ HIGH_CONFIDENCE_THRESHOLD = 70
    /\ sig = NoCall
    /\ last_neutral = NoTime
    /\ SHUTDOWN_EVENT = FALSE
    /\ pc = "loop"
    /\ positions = <<>>
    /\ verdict = NoSignal
    /\ ev = NoEvent

NextEntry ==
    \/ LoopTest
    \/ Manage
    \/ Gate
    \/ Signal
    \/ Check
    \/ Place
    \/ Sleep
    \/ \E dt \in TimeSteps : TraderTick(dt)

SpecEntry == InitEntry /\ [][NextEntry]_vars

\* C28: symbol_trader sends an entry order only when the verdict of
\* get_signal is buy or sell with a positive estimated profit, and every
\* order request it sends has the side of the verdict.
C28_OrderSideIsVerdict ==
    [][(pc = "place" /\ ev'.step = "place" /\ ev'.entry # <<>>) =>
          /\ verdict.signal \in {"buy", "sell"}
          /\ verdict.potential_profit > 0
          /\ \A i \in 1..Len(ev'.entry) :
                ev'.entry[i].side = verdict.signal]_vars

\* ------------------------------------------------------------------------
\* Properties of the memory of adjust_trading_parameters of src/trading.py
\* (SpecRisk, SpecTrader)
\* ------------------------------------------------------------------------

\* C29: the history of realized trades is bounded: its length never
\* exceeds the ten entries that the win rate is computed from, whatever the
\* number of adjust_trading_parameters calls.
C29_HistoryBounded == Len(state.trades_history) <= 10

\* C30: after a pass of manage_open_positions the direction memory holds
\* at most trade_direction_memory_size entries, and when the pass recorded
\* the outcome of one trade, the newest entry is the side (buy or sell) of
\* that trade.
C30_DirectionIsTradeSide ==
    [][(pc = "manage" /\ ev'.step = "manage") =>
          LET dirs == state'.recent_trade_directions
              log == ev'.log
          IN  /\ Len(dirs) <= trade_direction_memory_size
              /\ \A i \in 1..Len(log) :
                    (/\ log[i].adjusts = 1
                     /\ \A j \in (1..Len(log)) \ {i} : log[j].adjusts = 0)
                    => dirs[Len(dirs)] = log[i].type]_vars

\* ------------------------------------------------------------------------
\* Properties of the stop-loss and scale-up management of PositionManager
\* (SpecManager)
\* ------------------------------------------------------------------------

\* the open position with the given ticket
PositionOf(ps, ticket) ==
    ps[CHOOSE j \in 1..Len(ps) : ps[j].ticket = ticket]

\* C31: a position-management pass over a long position that is in profit
\* and whose stop-loss is below its entry price sends a stop-loss
\* modification that puts the stop-loss at the entry price or above it
\* (entry price plus the offset), in every pass in which the venue answered
\* the tick and symbol lookups (the pass sent its scale-up order).
C31_BreakevenMovesStop ==
    [][(pc = "manager" /\ ev'.step = "pass") =>
          \A i \in 1..Len(ev'.log) :
             LET l == ev'.log[i]
                 q == PositionOf(positions, l.ticket)
             IN  (/\ l.type = "buy" /\ l.profit > 0 /\ l.orders # <<>>
                  /\ q.sl < q.price_open) =>
                    \E k \in 1..Len(l.sl_requests) :
                       l.sl_requests[k].new_sl >= q.price_open]_vars

\* ------------------------------------------------------------------------
\* Properties of the error handling of symbol_trader of src/trading.py
\* (SpecTrader, FairTrader)
\* ------------------------------------------------------------------------

\* the Signal step reached the predictor and the predictor was unavailable:
\* its constructor or predict raised, or predict returned (None, 0, 0)
PredictorUnavailable(call) ==
    /\ call.called /\ call.eligible /\ call.rates
    /\ call.kind \in {"raise", "nodata"}

\* C32: when the predictor is unavailable, get_signal returns a verdict
\* that is not actionable (neutral or hold), symbol_trader sends no order
\* in that iteration, consecutive_losses and is_restricted are unchanged,
\* and the loop continues.
C32_PredictorUnavailableIsNotFatal ==
    [][/\ (pc = "signal" /\ ev'.step = "signal"
           /\ PredictorUnavailable(ev'.call)) =>
             /\ verdict'.signal \in {"None", "neutral"}
             /\ verdict'.potential_profit = 0
             /\ state'.consecutive_losses = state.consecutive_losses
             /\ state'.is_restricted = state.is_restricted
             /\ positions' = positions
             /\ pc' = "check"
       /\ (pc = "check" /\ ev'.step = "check"
           /\ PredictorUnavailable(ev.call)) =>
             /\ pc' \in {"loop", "sleep"}
             /\ state' = state
             /\ positions' = positions]_vars

\* the predictor raised and get_signal answered hold (None, None, 0)
C32_Witness ==
    /\ ev.step = "signal" /\ PredictorUnavailable(ev.call)
    /\ ev.call.kind = "raise"
    /\ verdict = NoSignal /\ pc = "check"

\* C33: symbol_trader treats an entry as a successful fill only if the
\* venue accepted an order during the place_order call: when place_order
\* returns without an accepted order, last_trade_time is not set and the
\* call counts as a failed fill.
C33_SuccessOnlyIfAccepted ==
    [][(pc = "place" /\ ev'.step = "place" /\ ~Filled(ev'.entry)) =>
          /\ state'.last_trade_time = state.last_trade_time
          /\ state'.consecutive_losses = state.consecutive_losses + 1]_vars

\* C34: self-throttling is never permanent: from every state in which the
\* instrument has no open position and the outcome-spread guard of
\* should_trade_symbol refuses it, a state is eventually reached in which
\* should_trade_symbol returns true (or the shutdown signal is set).
C34_ThrottleIsTemporary ==
    (positions = <<>> /\ OutcomeSpreadGuard(state))
        ~> (should_trade_symbol(state, now).ok \/ SHUTDOWN_EVENT)

\* ------------------------------------------------------------------------
\* Manual interventions (src/trading_2.py)
\* ------------------------------------------------------------------------

\* the cooldown of lines 431-439 is running
CooldownRunning(ts, t) ==
    /\ ts.manual_intervention_cooldown > 0
    /\ t - ts.last_manual_intervention_time <= 7200

\* C35: while the cooldown of a detected manual intervention is running
\* and the venue's positions were not changed from outside since the
\* detection, detect_manual_intervention does not fire again for the same
\* stale snapshot: the check of the next iteration leaves the
\* instrument's state and the intervention flags as they are.
C35_NoRepeatedDetection ==
    [][(/\ pc = "detect" /\ pc' = "cooldown"
        /\ ev.step = "detect" /\ ev.result = "own"
        /\ CooldownRunning(trading_state, now)
        /\ Len(positions) # Len(state.last_known_positions.list)) =>
            /\ state' = state
            /\ trading_state' = trading_state]_vars

\* the positions are those of the snapshot, with the same volumes
SamePositions(current_positions, list) ==
    /\ Len(current_positions) = Len(list)
    /\ \A i \in 1..Len(list) :
          /\ current_positions[i].ticket = list[i].ticket
          /\ current_positions[i].type = list[i].type
          /\ current_positions[i].volume = list[i].volume

\* the floating profit of a position moved since the snapshot
ProfitMoved(current_positions, list) ==
    \E i \in 1..Len(list) : current_positions[i].profit # list[i].profit

\* C36: when the instrument's open positions and their volumes are those
\* of the previous iteration and only their floating profit moved with
\* the market, detect_manual_intervention returns false: the check sets
\* no manual-intervention flag and the instrument is not penalised.
C36_ProfitMoveIsNoIntervention ==
    [][(/\ pc = "detect" /\ pc' = "cooldown"
        /\ state.last_known_positions.known = "some"
        /\ SamePositions(positions, state.last_known_positions.list)
        /\ ProfitMoved(positions, state.last_known_positions.list)) =>
            /\ state' = state
            /\ trading_state' = trading_state]_vars

\* ------------------------------------------------------------------------
\* Scaling tiers (src/trading/position_manager.py)
\* ------------------------------------------------------------------------

\* C37: a position is scaled up at most once per scaling tier: when a pass
\* of PositionManager.manage_open_positions sent a scale-up order for a
\* position and the venue accepted it, the next pass, in which the
\* position's profit is the same and so meets the same threshold, sends no
\* further scale-up order for it.
C37_OneScaleUpPerTier ==
    [][(pc = "manager" /\ ev.step = "pass" /\ ev'.step = "pass") =>
          \A i \in 1..Len(ev.log) : \A j \in 1..Len(ev'.log) :
             LET l == ev.log[i]
                 n == ev'.log[j]
             IN  (/\ l.ticket = n.ticket
                  /\ l.profit > 0 /\ n.profit = l.profit
                  /\ l.orders # <<>> /\ l.orders[1].accepted) =>
                     n.orders = <<>>]_vars

\* ------------------------------------------------------------------------
\* Two instruments (src/trading_2.py): the flags of trading_state are
\* attributes of the one trading_state object that the loops of all
\* instruments share
\* ------------------------------------------------------------------------

\* lines 265-269, 275-279, 285-289, run by the symbol_trader thread of
\* another instrument: its detect_manual_intervention reports a change of
\* that instrument's positions and writes the shared flags
OtherInstrumentDetects ==
    /\ trading_state' = RecordIntervention(now)
    /\ ev' = Detected("other", trading_state)
    /\ trading_state' # trading_state
    /\ UNCHANGED <<lifted, state, now, is_conservative_mode, SHUTDOWN_EVENT,
                   pc, positions, verdict, HIGH_CONFIDENCE_THRESHOLD, sig,
                   last_neutral, pmVars>>

NextInstruments ==
    \/ TraderStep2
    \/ OtherInstrumentDetects
    \/ Tick2

\* the loop of one instrument of trading_2 next to the loop of another
SpecInstruments == InitTrader2 /\ [][NextInstruments]_vars

\* C38: the loops of different instruments are independent: a manual
\* intervention detected on another instrument, at a moment when no
\* cooldown was running, does not stop this instrument's loop, which has
\* an open position, from going on to manage its open positions.
C38_LoopsAreIndependent ==
    [][(/\ pc = "cooldown" /\ pc' # "cooldown"
        /\ ev.step = "detect" /\ ev.result = "other"
        /\ ev.slept = "none"
        /\ positions # <<>>) =>
            pc' = "manage"]_vars

\* ------------------------------------------------------------------------
\* Conservative mode
\* ------------------------------------------------------------------------

\* C39: conservative mode is a one-way latch: once
\* trading_state.is_conservative_mode is true, no step resets it.
C39_ConservativeModeLatches ==
    [][is_conservative_mode => is_conservative_mode']_vars

\* conservative mode is still set after a pass of manage_open_positions in
\* which the profit of every open position is below the profit threshold
C39_Witness ==
    /\ is_conservative_mode
    /\ pc = "trade"
    /\ positions # <<>>
    /\ \A i \in 1..Len(positions) :
          positions[i].profit < state.profit_threshold

=============================================================================
